---------------------------- MODULE Spec2Model ----------------------------
(***************************************************************************)
(* A model of the CDR mediation pipeline of nodes-script.                  *)
(*                                                                         *)
(*   Part I   the binary record framer   decoder_node/decoder.py           *)
(*   Part II  the field derivation       datawarehouse_mapper_node/*.py,   *)
(*            engine (mappers)           DWHBLN/sms_dwh_bln.py,            *)
(*                                       COMMAN BLN/cbl.py                 *)
(*   Part III the location decoder       decode_location_hex_field         *)
(*   Part IV  the router                 cbl.route_using_config            *)
(*   Part V   the filtration gate        RFR/rfr.py                        *)
(*   Part VI  the normalization pass     decoder.flatten_and_collapse      *)
(*   Part VII the property lookup        cbl.find_nodes_by_property        *)
(*   Part VIII the dedup workers         record_duplicate_checker.py       *)
(*   Part IX  the file loops             main loops of the scripts         *)
(*   Part X   the filtration copies      rfr.process_file                  *)
(*   Part XI  the SFTP collector         sftp_collector.collect_files      *)
(*   Part XII the output writers         process_input_file, process_file  *)
(*                                                                         *)
(* Python values are modelled as tagged records, Python strings as         *)
(* sequences of one-character strings, Decimal values as integers scaled   *)
(* by 10^5, and bytes as integers 0..255.                                  *)
(***************************************************************************)
EXTENDS Integers, Sequences, FiniteSets, TLC

VARIABLES
    \* ---- Part I: decode_all_ber_records ----
    raw_data,       \* the input byte buffer
    decoder,        \* "ber": spec is a BER codec; "any": spec is any object (spec: Any)
    hasDWL,         \* hasattr(spec, "decode_with_length")
    offset,         \* the framer's cursor (0-based)
    records,        \* the list of emitted records
    record_count,   \* the next record number
    lastEvent,      \* what the last loop iteration did
    layout,         \* history: the true records the buffer was built from
    corrupt,        \* history: 1-based position of the corrupted byte, 0 if none
    \* ---- Part II: the mappers ----
    cdr_json,       \* the input record handed to a mapper
    enforce_defined,\* sms_dwh_bln: enforce_canonical is bound when map_phase1 runs
    mapper,         \* which script has mapped the record ("none" before)
    mapped,         \* the output record: a sequence of <<key, value>> pairs
    valid,          \* voice mapper: validate_canonical_record accepted the record
    \* ---- Part III: decode_location_hex_field ----
    hexstr,         \* the location string handed to the decoder
    loc_mapper,     \* whose decode_location_hex_field ran ("none" before)
    loc_out,        \* the string it returned
    \* ---- Part IV: route_using_config ----
    routing_rules,  \* cfg["routingRules"]: a sequence of [name, conditions]
    el_fields,      \* the EL fields of the record being routed
    rule_idx,       \* position of the for loop over routing_rules
    written,        \* the files written so far: a sequence of [name, sub]
    \* ---- Part V: apply_filtration_rules ----
    generic,        \* the genericRecord under filtration
    fil_args,       \* [billing, strict_el] of the run
    fil_done,       \* apply_filtration_rules has returned
    keep,           \* its verdict
    \* ---- Part VI: flatten_and_collapse ----
    decoded,        \* the decoded value
    passes,         \* how many normalization passes have run (0..2)
    flattened,      \* the value after the first pass
    reflattened,    \* the value after the second pass
    \* ---- Part VII: find_nodes_by_property ----
    container,      \* the tree searched
    prop_name,      \* the tag looked for
    looked,         \* the lookup has returned
    found_nodes,    \* the nodes it returned
    \* ---- Part VIII: the dedup workers ----
    rec_keys,       \* composite keys of the record each worker thread holds
    db,             \* rows of rec_dup_keys (the set of stored keys)
    db_lock,        \* holder of _db_lock, 0 when free
    thread,         \* per worker thread: [pc, key, attempt, outcome, ...]
    purged,         \* history: cleanup_old_keys has deleted a row
    \* ---- Part IX: the file loops ----
    script,         \* which script the workers run
    file_kind,      \* per input file: "good", "list", "malformed" or "unreadable"
    place,          \* per input file: "outside", "in" (the input directory) or "aside"
    worker,         \* per worker: [pc, file, files, phase]
    stop,           \* the workers whose process received a stop signal
    tries,          \* history: per worker and file, how often processing began
    aborted,        \* history: files left behind by a worker that exited mid-file
    \* ---- Part X: rfr.process_file ----
    doc,            \* the input file: [kind, generics]
    args,           \* [billing, strict_el] of the run
    copies,         \* the directories that hold a copy of the input file
    rfr_done,       \* process_file has returned
    \* ---- Part XI: sftp_collector.collect_files ----
    remote,         \* per remote folder: the files it holds
    renamed,        \* the remote files renamed to <name>.done
    local,          \* per remote file: its copy under ./in ("absent", "partial", "whole")
    last_collected, \* the folder written to last_collected.txt, 0 for none
    collector,      \* the collector: [pc, folders, folder, files, cycle]
    attempts,       \* history: per remote file, how often sftp.get was called
    \* ---- Part XII: the output writers ----
    node,           \* which script processes the file
    in_records,     \* the records of the input file: "object" or "scalar" each
    writer,         \* the script's position: [pc, i]
    mapped_list,    \* the list `mapped`: the input records derived so far
    rejects,        \* the list `rejects`: entries [reason, record, of]
    disk            \* per output path: "absent", "partial" or "whole"

framerVars == <<raw_data, decoder, hasDWL, offset, records, record_count,
                lastEvent, layout, corrupt>>

mapperVars == <<cdr_json, enforce_defined, mapper, mapped, valid>>

locVars == <<hexstr, loc_mapper, loc_out>>

routeVars == <<routing_rules, el_fields, rule_idx, written>>

filterVars == <<generic, fil_args, fil_done, keep>>

normVars == <<decoded, passes, flattened, reflattened>>

findVars == <<container, prop_name, looked, found_nodes>>

dedupVars == <<rec_keys, db, db_lock, thread, purged>>

loopVars == <<script, file_kind, place, worker, stop, tries, aborted>>

copyVars == <<doc, args, copies, rfr_done>>

sftpVars == <<remote, renamed, local, last_collected, collector, attempts>>

writeVars == <<node, in_records, writer, mapped_list, rejects, disk>>

vars == <<framerVars, mapperVars, locVars, routeVars, filterVars, normVars,
          findVars, dedupVars, loopVars, copyVars, sftpVars, writeVars>>

\* The state of a part while a specification of another part runs.
FramerIdle ==
    /\ raw_data = << >> /\ decoder = "ber" /\ hasDWL = TRUE /\ offset = 0
    /\ records = << >> /\ record_count = 1 /\ lastEvent = "none"
    /\ layout = << >> /\ corrupt = 0

MapperIdle ==
    /\ cdr_json = << >> /\ enforce_defined = FALSE /\ mapper = "none"
    /\ mapped = << >> /\ valid = FALSE

LocIdle ==
    /\ hexstr = << >> /\ loc_mapper = "none" /\ loc_out = << >>

RouteIdle ==
    /\ routing_rules = << >> /\ el_fields = << >> /\ rule_idx = 0
    /\ written = << >>

FilterIdle ==
    /\ generic = << >> /\ fil_args = << >> /\ fil_done = FALSE
    /\ keep = FALSE

NormIdle ==
    /\ decoded = << >> /\ passes = 0 /\ flattened = << >>
    /\ reflattened = << >>

FindIdle ==
    /\ container = << >> /\ prop_name = "" /\ looked = FALSE
    /\ found_nodes = << >>

DedupIdle ==
    /\ rec_keys = << >> /\ db = {} /\ db_lock = 0 /\ thread = << >>
    /\ purged = FALSE

LoopIdle ==
    /\ script = "none" /\ file_kind = << >> /\ place = << >> /\ worker = << >>
    /\ stop = {} /\ tries = << >> /\ aborted = {}

CopyIdle ==
    /\ doc = << >> /\ args = << >> /\ copies = {} /\ rfr_done = FALSE

SftpIdle ==
    /\ remote = << >> /\ renamed = {} /\ local = << >> /\ last_collected = 0
    /\ collector = << >> /\ attempts = << >>

WriteIdle ==
    /\ node = "none" /\ in_records = << >> /\ writer = << >>
    /\ mapped_list = << >> /\ rejects = << >> /\ disk = << >>

\* For each part: the variables its actions leave untouched (not...), and
\* the state the other parts rest in while it runs (Only...).
notFramer ==
    <<mapperVars, locVars, routeVars, filterVars, normVars, findVars,
      dedupVars, loopVars, copyVars, sftpVars, writeVars>>

OnlyFramer ==
    /\ MapperIdle /\ LocIdle /\ RouteIdle /\ FilterIdle /\ NormIdle
    /\ FindIdle /\ DedupIdle /\ LoopIdle /\ CopyIdle /\ SftpIdle
    /\ WriteIdle

notMapper ==
    <<framerVars, locVars, routeVars, filterVars, normVars, findVars,
      dedupVars, loopVars, copyVars, sftpVars, writeVars>>

OnlyMapper ==
    /\ FramerIdle /\ LocIdle /\ RouteIdle /\ FilterIdle /\ NormIdle
    /\ FindIdle /\ DedupIdle /\ LoopIdle /\ CopyIdle /\ SftpIdle
    /\ WriteIdle

notLoc ==
    <<framerVars, mapperVars, routeVars, filterVars, normVars, findVars,
      dedupVars, loopVars, copyVars, sftpVars, writeVars>>

OnlyLoc ==
    /\ FramerIdle /\ MapperIdle /\ RouteIdle /\ FilterIdle /\ NormIdle
    /\ FindIdle /\ DedupIdle /\ LoopIdle /\ CopyIdle /\ SftpIdle
    /\ WriteIdle

notRoute ==
    <<framerVars, mapperVars, locVars, filterVars, normVars, findVars,
      dedupVars, loopVars, copyVars, sftpVars, writeVars>>

OnlyRoute ==
    /\ FramerIdle /\ MapperIdle /\ LocIdle /\ FilterIdle /\ NormIdle
    /\ FindIdle /\ DedupIdle /\ LoopIdle /\ CopyIdle /\ SftpIdle
    /\ WriteIdle

notFilter ==
    <<framerVars, mapperVars, locVars, routeVars, normVars, findVars,
      dedupVars, loopVars, copyVars, sftpVars, writeVars>>

OnlyFilter ==
    /\ FramerIdle /\ MapperIdle /\ LocIdle /\ RouteIdle /\ NormIdle
    /\ FindIdle /\ DedupIdle /\ LoopIdle /\ CopyIdle /\ SftpIdle
    /\ WriteIdle

notNorm ==
    <<framerVars, mapperVars, locVars, routeVars, filterVars, findVars,
      dedupVars, loopVars, copyVars, sftpVars, writeVars>>

OnlyNorm ==
    /\ FramerIdle /\ MapperIdle /\ LocIdle /\ RouteIdle /\ FilterIdle
    /\ FindIdle /\ DedupIdle /\ LoopIdle /\ CopyIdle /\ SftpIdle
    /\ WriteIdle

notFind ==
    <<framerVars, mapperVars, locVars, routeVars, filterVars, normVars,
      dedupVars, loopVars, copyVars, sftpVars, writeVars>>

OnlyFind ==
    /\ FramerIdle /\ MapperIdle /\ LocIdle /\ RouteIdle /\ FilterIdle
    /\ NormIdle /\ DedupIdle /\ LoopIdle /\ CopyIdle /\ SftpIdle
    /\ WriteIdle

notDedup ==
    <<framerVars, mapperVars, locVars, routeVars, filterVars, normVars,
      findVars, loopVars, copyVars, sftpVars, writeVars>>

OnlyDedup ==
    /\ FramerIdle /\ MapperIdle /\ LocIdle /\ RouteIdle /\ FilterIdle
    /\ NormIdle /\ FindIdle /\ LoopIdle /\ CopyIdle /\ SftpIdle
    /\ WriteIdle

notLoop ==
    <<framerVars, mapperVars, locVars, routeVars, filterVars, normVars,
      findVars, dedupVars, copyVars, sftpVars, writeVars>>

OnlyLoop ==
    /\ FramerIdle /\ MapperIdle /\ LocIdle /\ RouteIdle /\ FilterIdle
    /\ NormIdle /\ FindIdle /\ DedupIdle /\ CopyIdle /\ SftpIdle
    /\ WriteIdle

notCopy ==
    <<framerVars, mapperVars, locVars, routeVars, filterVars, normVars,
      findVars, dedupVars, loopVars, sftpVars, writeVars>>

OnlyCopy ==
    /\ FramerIdle /\ MapperIdle /\ LocIdle /\ RouteIdle /\ FilterIdle
    /\ NormIdle /\ FindIdle /\ DedupIdle /\ LoopIdle /\ SftpIdle
    /\ WriteIdle

notSftp ==
    <<framerVars, mapperVars, locVars, routeVars, filterVars, normVars,
      findVars, dedupVars, loopVars, copyVars, writeVars>>

OnlySftp ==
    /\ FramerIdle /\ MapperIdle /\ LocIdle /\ RouteIdle /\ FilterIdle
    /\ NormIdle /\ FindIdle /\ DedupIdle /\ LoopIdle /\ CopyIdle
    /\ WriteIdle

notWrite ==
    <<framerVars, mapperVars, locVars, routeVars, filterVars, normVars,
      findVars, dedupVars, loopVars, copyVars, sftpVars>>

OnlyWrite ==
    /\ FramerIdle /\ MapperIdle /\ LocIdle /\ RouteIdle /\ FilterIdle
    /\ NormIdle /\ FindIdle /\ DedupIdle /\ LoopIdle /\ CopyIdle
    /\ SftpIdle

-----------------------------------------------------------------------------
(***************************************************************************)
(* Part I.  The binary record framer.                                      *)
(***************************************************************************)

\* Bounds of the framer model.
MaxRecords == 3          \* records concatenated into one buffer
MaxReportedLen == 3      \* largest length an arbitrary decoder reports
MaxIterations == 6       \* cap on loop iterations under an arbitrary decoder

\* The tag byte of the top-level record type (0xa0, first of valid_tags).
TopLevelTag == 160

\* valid_tags, as the bytes whose two-digit hex text is in the set
\* ('bf8148' is never the text of one byte).
valid_tags == {160, 161, 162, 163, 164, 165, 166, 49}

\* Python's raw_data[offset:] for a 0-based offset.
SliceFrom(data, off) == SubSeq(data, off + 1, Len(data))

FailedDecode == [ok |-> FALSE, consumed |-> 0, canon |-> << >>]

(***************************************************************************)
(* The BER codec behind spec.decode / spec.decode_with_length / spec.encode*)
(* (asn1tools; not part of the repository).  A value is a constructed TLV  *)
(* with tag 0xa0 whose content is a sequence of such TLVs.  The length is  *)
(* read in short form (one byte < 0x80) or in the one-byte long form       *)
(* (0x81 L); the encoder always writes the short form, so `canon` (the     *)
(* re-encoding of the decoded value) may be shorter than the input.        *)
(* BerDecodeAt decodes one value in data[pos..limit] (1-based positions).  *)
(***************************************************************************)
RECURSIVE BerDecodeAt(_, _, _)
RECURSIVE BerDecodeSeq(_, _, _)

BerDecodeAt(data, pos, limit) ==
    IF pos + 1 > limit \/ data[pos] # TopLevelTag THEN FailedDecode
    ELSE LET lb   == data[pos + 1]
             long == lb = 129
             hdr  == IF long THEN 3 ELSE 2
         IN  IF (~long /\ lb >= 128) \/ (long /\ pos + 2 > limit) THEN FailedDecode
             ELSE LET L    == IF long THEN data[pos + 2] ELSE lb
                      last == pos + hdr + L - 1
                  IN  IF L >= 128 \/ last > limit THEN FailedDecode
                      ELSE LET kids == BerDecodeSeq(data, pos + hdr, last)
                           IN  IF ~kids.ok THEN FailedDecode
                               ELSE [ok       |-> TRUE,
                                     consumed |-> hdr + L,
                                     canon    |-> <<TopLevelTag, Len(kids.canon)>>
                                                    \o kids.canon]

BerDecodeSeq(data, pos, limit) ==
    IF pos > limit THEN [ok |-> TRUE, consumed |-> 0, canon |-> << >>]
    ELSE LET d == BerDecodeAt(data, pos, limit)
         IN  IF ~d.ok THEN FailedDecode
             ELSE LET rest == BerDecodeSeq(data, pos + d.consumed, limit)
                  IN  IF ~rest.ok THEN FailedDecode
                      ELSE [ok       |-> TRUE,
                            consumed |-> d.consumed + rest.consumed,
                            canon    |-> d.canon \o rest.canon]

\* spec.decode(TOP_LEVEL_TYPE, slice_data): one value from the front of the
\* slice, trailing bytes ignored.
BerDecode(slice) == BerDecodeAt(slice, 1, Len(slice))

(***************************************************************************)
(* What one pass through the try block can yield for the slice: the        *)
(* decoded value and record_len, or an exception.  With a BER codec the    *)
(* outcome is determined by the bytes; decode_with_length reports the      *)
(* bytes consumed, the fallback measures the re-encoding.  With an         *)
(* arbitrary spec object the framer is handed whatever it returns.         *)
(***************************************************************************)
TryDecode(slice) ==
    IF decoder = "ber"
    THEN LET d == BerDecode(slice)
         IN  IF ~d.ok THEN {[ok |-> FALSE, record_len |-> 0, decoded |-> << >>]}
             ELSE {[ok |-> TRUE,
                    record_len |-> IF hasDWL THEN d.consumed ELSE Len(d.canon),
                    decoded |-> d.canon]}
    ELSE {[ok |-> FALSE, record_len |-> 0, decoded |-> << >>]}
         \cup {[ok |-> TRUE, record_len |-> n, decoded |-> << >>] :
                  n \in 0 .. MaxReportedLen}

\* while offset < total_len (and slice_data non-empty): the loop is running.
FramerRunning == offset < Len(raw_data) /\ SliceFrom(raw_data, offset) # << >>

FramerDone == ~FramerRunning

\* FramerEmit with the cursor advanced by one byte instead of record_len.
FramerEmit_AdvanceByOne ==
    /\ FramerRunning
    /\ record_count <= MaxIterations
    /\ \E r \in TryDecode(SliceFrom(raw_data, offset)) :
          /\ r.ok
          /\ records' = Append(records,
                           [key          |-> record_count,
                            recordLength |-> r.record_len,
                            genericRecord |-> r.decoded,
                            start        |-> offset])
          /\ offset' = offset + 1
          /\ record_count' = record_count + 1
          /\ lastEvent' = "record"
    /\ UNCHANGED <<raw_data, decoder, hasDWL, layout, corrupt, notFramer>>

\* One iteration whose decode succeeds: append the record, advance by record_len.
FramerEmit ==
    /\ FramerRunning
    /\ record_count <= MaxIterations
    /\ \E r \in TryDecode(SliceFrom(raw_data, offset)) :
          /\ r.ok
          /\ records' = Append(records,
                           [key          |-> record_count,
                            recordLength |-> r.record_len,
                            genericRecord |-> r.decoded,
                            start        |-> offset])
          /\ offset' = offset + r.record_len
          /\ record_count' = record_count + 1
          /\ lastEvent' = "record"
    /\ UNCHANGED <<raw_data, decoder, hasDWL, layout, corrupt, notFramer>>

\* One iteration whose decode raises: skip one byte, whatever the first byte is.
FramerSkip ==
    /\ FramerRunning
    /\ \E r \in TryDecode(SliceFrom(raw_data, offset)) :
          /\ ~r.ok
          /\ lastEvent' = IF raw_data[offset + 1] \notin valid_tags
                          THEN "skip_unknown_tag" ELSE "decode_failed"
          /\ offset' = offset + 1
    /\ UNCHANGED <<raw_data, decoder, hasDWL, records, record_count, layout,
                   corrupt, notFramer>>

decode_all_ber_records == FramerEmit \/ FramerSkip

\* ---- the buffers the framer is run on ----

\* Valid encodings of single records: empty, with one child, and a record
\* of two children in which two lengths are written in the long form.
ValidRecords ==
    { <<160, 0>>, <<160, 2, 160, 0>>, <<160, 129, 5, 160, 129, 0, 160, 0>> }

\* The bytes a corrupted position may hold.
CorruptBytes == {0, 2, 129, 160}

RECURSIVE Concat(_)
Concat(ss) == IF ss = << >> THEN << >> ELSE Head(ss) \o Concat(Tail(ss))

RECURSIVE StartsOf(_, _)
StartsOf(ss, at) ==
    IF ss = << >> THEN << >>
    ELSE <<[start |-> at, len |-> Len(Head(ss)), bytes |-> Head(ss)]>>
             \o StartsOf(Tail(ss), at + Len(Head(ss)))

\* A buffer is N valid records laid end to end, with at most one byte
\* overwritten.  An arbitrary spec object never looks at the bytes, so it is
\* run on the short single-record buffers only: those a reported length
\* can fall short of, meet and overshoot.
FramerInit ==
    /\ \E n \in 1 .. MaxRecords : \E recs \in [1 .. n -> ValidRecords] :
          LET clean == Concat(recs)
          IN  /\ layout = StartsOf(recs, 0)
              /\ \/ /\ decoder = "ber"
                    /\ \/ corrupt = 0 /\ raw_data = clean
                       \/ \E p \in 1 .. Len(clean) :
                             \E b \in CorruptBytes \ {clean[p]} :
                                /\ corrupt = p
                                /\ raw_data = [clean EXCEPT ![p] = b]
                 \/ /\ decoder = "any"
                    /\ n = 1
                    /\ Len(clean) <= MaxReportedLen + 1
                    /\ corrupt = 0
                    /\ raw_data = clean
    /\ hasDWL \in BOOLEAN
    /\ offset = 0
    /\ records = << >>
    /\ record_count = 1
    /\ lastEvent = "none"
    /\ OnlyFramer

\* ---- claims about the framer ----

\* The index in layout of the record that holds the corrupted byte.
CorruptRecord ==
    CHOOSE k \in 1 .. Len(layout) :
        layout[k].start < corrupt /\ corrupt <= layout[k].start + layout[k].len

\* Record i of the buffer was emitted exactly once, at its true offset, with
\* its true length and its own content.
EmittedOnce(i) ==
    Cardinality({ j \in 1 .. Len(records) :
                    /\ records[j].start = layout[i].start
                    /\ records[j].recordLength = layout[i].len
                    /\ records[j].genericRecord = BerDecode(layout[i].bytes).canon })
        = 1

\* The framer returned the records of the buffer, all of them and no other,
\* numbered in input order, each at its true offset.
FramedExactly ==
    /\ Len(records) = Len(layout)
    /\ \A i \in 1 .. Len(layout) :
          /\ records[i].key = i
          /\ records[i].start = layout[i].start
          /\ records[i].genericRecord = BerDecode(layout[i].bytes).canon

\* Every record of the buffer re-encodes to as many bytes as it was read from.
ReencodesToSameLength ==
    \A i \in 1 .. Len(layout) :
        Len(BerDecode(layout[i].bytes).canon) = layout[i].len

\* C1: on every iteration of the framer loop, whatever the decoder returns
\* (failure, or success with any record_len), offset strictly increases.
C1_OffsetStrictlyIncreases ==
    [][decode_all_ber_records => offset' > offset]_vars

\* C2 as stated: for a buffer of N valid records the framer returns exactly
\* the N records in input order at their true offsets, with the length
\* reported by the decoder and with the length of the re-encoding alike.
C2_FramesAllValidRecords ==
    (FramerDone /\ decoder = "ber" /\ corrupt = 0) => FramedExactly

\* C2 amended: the same, when the decoder reports the consumed length, or
\* when every record re-encodes to the length it was read from.
C2_FramesValidRecordsOfKnownLength ==
    (FramerDone /\ decoder = "ber" /\ corrupt = 0
        /\ (hasDWL \/ ReencodesToSameLength)) => FramedExactly

\* C2 witness: two or more records, one written with a long-form length,
\* framed with the decoder reporting the consumed length.
C2_Witness ==
    /\ FramerDone /\ decoder = "ber" /\ corrupt = 0 /\ hasDWL
    /\ Len(layout) >= 2
    /\ ~ReencodesToSameLength
    /\ FramedExactly

\* C3: with one byte of record k corrupted, every other record of the buffer
\* is still emitted exactly once (stated for the decoder that reports the
\* consumed length).
C3_CorruptionIsContained ==
    (FramerDone /\ decoder = "ber" /\ hasDWL /\ corrupt # 0) =>
        \A i \in 1 .. Len(layout) : i # CorruptRecord => EmittedOnce(i)

FramerNext == decode_all_ber_records

SpecFramer == FramerInit /\ [][FramerNext]_vars

-----------------------------------------------------------------------------
(***************************************************************************)
(* Part II.  The field derivation engine (mappers).                        *)
(*                                                                         *)
(* Python values: None, str (a sequence of characters), float (the double  *)
(* nearest to n/10^5; `exact` is FALSE when the double came out of float   *)
(* arithmetic and may differ from the nearest one), int, and Decimal       *)
(* (n/10^5 written with e fractional digits).                              *)
(***************************************************************************)

NONE == [t |-> "none"]
Str(chars) == [t |-> "str", s |-> chars]
Flt(m) == [t |-> "float", n |-> m, exact |-> TRUE]
PyInt(m) == [t |-> "int", n |-> m]
Dec(m, places) == [t |-> "dec", n |-> m, e |-> places]
EMPTY == Str(<< >>)

\* Decimal values keep five fractional digits: the scale is 10^Places.
Places == 5

Digits == <<"0", "1", "2", "3", "4", "5", "6", "7", "8", "9">>
IsDigit(c) == \E i \in 1 .. 10 : Digits[i] = c
DigitVal(c) == (CHOOSE i \in 1 .. 10 : Digits[i] = c) - 1

RECURSIVE Pow10(_)
Pow10(k) == IF k = 0 THEN 1 ELSE 10 * Pow10(k - 1)

Scale == Pow10(Places)

Max(a, b) == IF a >= b THEN a ELSE b
Abs(a) == IF a < 0 THEN -a ELSE a

RECURSIVE NatOfDigits(_)
NatOfDigits(cs) ==
    IF cs = << >> THEN 0
    ELSE 10 * NatOfDigits(SubSeq(cs, 1, Len(cs) - 1)) + DigitVal(cs[Len(cs)])

RECURSIVE NatToChars(_)
NatToChars(m) ==
    IF m < 10 THEN <<Digits[m + 1]>>
    ELSE NatToChars(m \div 10) \o <<Digits[(m % 10) + 1]>>

\* k digits of m, zero-padded on the left.
RECURSIVE PadDigits(_, _)
PadDigits(m, k) ==
    IF k = 0 THEN << >> ELSE PadDigits(m \div 10, k - 1) \o <<Digits[(m % 10) + 1]>>

\* The position of the first occurrence of character c in cs, 0 if none.
RECURSIVE IndexOf(_, _)
IndexOf(cs, c) ==
    IF cs = << >> THEN 0
    ELSE IF Head(cs) = c THEN 1
    ELSE LET r == IndexOf(Tail(cs), c) IN IF r = 0 THEN 0 ELSE r + 1

\* Decimal(str(v)) for the plain forms [-]digits[.digits] with at most
\* Places fractional digits; anything else is InvalidOperation (ok = FALSE).
ParseDecimal(chars) ==
    LET parts(neg, ip, fp) ==
            IF /\ Len(ip) + Len(fp) > 0
               /\ Len(fp) <= Places
               /\ \A i \in 1 .. Len(ip) : IsDigit(ip[i])
               /\ \A i \in 1 .. Len(fp) : IsDigit(fp[i])
            THEN [ok |-> TRUE,
                  n  |-> (IF neg THEN -1 ELSE 1)
                         * (NatOfDigits(ip) * Scale
                            + NatOfDigits(fp) * Pow10(Places - Len(fp))),
                  e  |-> Len(fp)]
            ELSE [ok |-> FALSE, n |-> 0, e |-> 0]
        split(neg, body, dot) ==
            parts(neg,
                  IF dot = 0 THEN body ELSE SubSeq(body, 1, dot - 1),
                  IF dot = 0 THEN << >> ELSE SubSeq(body, dot + 1, Len(body)))
        signed(neg, body) == split(neg, body, IndexOf(body, "."))
    IN  signed(chars # << >> /\ Head(chars) = "-",
               IF chars # << >> /\ Head(chars) = "-" THEN Tail(chars) ELSE chars)

\* n/10^5 written in fixed notation with `places` fractional digits
\* (str(Decimal) and format(Decimal, 'f') of a value with that exponent).
FormatFixed(m, places) ==
    LET mag  == Abs(m)
        ip   == NatToChars(mag \div Scale)
        fp   == PadDigits((mag % Scale) \div Pow10(Places - places), places)
        sign == IF m < 0 THEN <<"-">> ELSE << >>
    IN  sign \o ip \o (IF places = 0 THEN << >> ELSE <<".">> \o fp)

\* The least number of fractional digits that writes n/10^5 exactly.
RECURSIVE MinPlaces(_, _)
MinPlaces(m, k) ==
    IF k = 0 THEN 0
    ELSE IF (m % Pow10(Places - k + 1)) = 0 THEN MinPlaces(m, k - 1) ELSE k

\* str(x) / repr(x) of a float (shortest digits that read back the same,
\* never fewer than one fractional digit), for 1e-4 <= |x| < 1e16 or x = 0.
FloatStr(m) == FormatFixed(m, Max(1, MinPlaces(m, Places)))

\* str(v) of a Python value.
PyStr(v) ==
    CASE v.t = "str"   -> v.s
      [] v.t = "float" -> FloatStr(v.n)
      [] v.t = "int"   -> FormatFixed(v.n * Scale, 0)
      [] v.t = "dec"   -> FormatFixed(v.n, v.e)
      [] OTHER         -> <<"N", "o", "n", "e">>

\* Python truthiness of a value (for `x or y`, `if x`).
Truthy(v) ==
    CASE v.t = "none"  -> FALSE
      [] v.t = "str"   -> v.s # << >>
      [] v.t = "float" -> v.n # 0
      [] v.t = "int"   -> v.n # 0
      [] v.t = "dec"   -> v.n # 0
      [] OTHER         -> TRUE

\* Python's `a or b`.
Or(a, b) == IF Truthy(a) THEN a ELSE b

\* to_decimal(v): None for None, "" and unparsable text, else Decimal(str(v)).
to_decimal(v) ==
    IF v = NONE \/ v = EMPTY THEN NONE
    ELSE LET decimal(p) == IF p.ok THEN Dec(p.n, p.e) ELSE NONE
         IN  decimal(ParseDecimal(PyStr(v)))

\* Decimal subtraction and addition (exact; the exponent is the smaller one).
DecSub(a, b) == Dec(a.n - b.n, Max(a.e, b.e))
DecAdd(a, b) == Dec(a.n + b.n, Max(a.e, b.e))

\* fmt_decimal of the data mapper: "" for None, else five fractional digits.
fmt_decimal(d) == IF d = NONE THEN EMPTY ELSE Str(FormatFixed(d.n, Places))

\* fmt_decimal_to_float of the voice and SMS mappers: float(d).
fmt_decimal_to_float(d) == IF d = NONE THEN NONE ELSE Flt(d.n)

\* `float(d) if d is not None else 0.0` and `v if v is not None else 0.0`.
FloatOrZero(d) == IF d # NONE THEN fmt_decimal_to_float(d) ELSE Flt(0)
OrZero(v) == IF v # NONE THEN v ELSE Flt(0)

\* before - after where both are known, None otherwise.
DecDiff(before, after) ==
    IF before # NONE /\ after # NONE THEN DecSub(before, after) ELSE NONE

\* ",".join(parts) for a sequence of character sequences.
RECURSIVE Join(_)
Join(parts) ==
    IF parts = << >> THEN << >>
    ELSE IF Len(parts) = 1 THEN parts[1]
    ELSE parts[1] \o <<",">> \o Join(Tail(parts))

\* s.split(","): the pieces between commas (one piece for a comma-free s).
RECURSIVE Split(_)
Split(cs) ==
    LET i == IndexOf(cs, ",")
    IN  IF i = 0 THEN <<cs>>
        ELSE <<SubSeq(cs, 1, i - 1)>> \o Split(SubSeq(cs, i + 1, Len(cs)))

-----------------------------------------------------------------------------
(***************************************************************************)
(* The output schemas.  A Python dict is a sequence of <<key, value>>      *)
(* pairs in insertion order.                                               *)
(***************************************************************************)

\* range(1, 6): the five slots of a repeated block.
MaxSlots == 5

AcctSlotKeys(n) ==
    <<"EL_ACCT_BALANCE_ID" \o ToString(n), "EL_BALANCE_TYPE" \o ToString(n),
      "EL_CUR_BALANCE" \o ToString(n), "EL_CHG_BALANCE" \o ToString(n),
      "EL_RATE_ID" \o ToString(n)>>

BucketSlotKeys(n) ==
    <<"EL_BUCKET_BALANCE_ID" \o ToString(n),
      "EL_BUCKET_BALANCE_TYPE" \o ToString(n),
      "EL_BUCKET_CUR_BALANCE" \o ToString(n),
      "EL_BUCKET_CHG_BALANCE" \o ToString(n),
      "EL_BUCKET_RATE_ID" \o ToString(n)>>

RECURSIVE AllAcctSlotKeys(_)
AllAcctSlotKeys(n) ==
    IF n = 0 THEN << >> ELSE AllAcctSlotKeys(n - 1) \o AcctSlotKeys(n)

RECURSIVE AllBucketSlotKeys(_)
AllBucketSlotKeys(n) ==
    IF n = 0 THEN << >> ELSE AllBucketSlotKeys(n - 1) \o BucketSlotKeys(n)

SlotKeys == AllAcctSlotKeys(MaxSlots) \o AllBucketSlotKeys(MaxSlots)

\* The 35 call-level fields, in the order both CANONICAL_FIELDS lists and
\* the SMS mapper's `out` literal give them.
Phase3Keys ==
    <<"EL_CALLING_PARTY_NUMBER", "EL_CALLED_PARTY_NUMBER",
      "EL_CALLING_PARTY_IMSI", "EL_CALLED_PARTY_IMSI", "EL_SERVICE_FLOW",
      "EL_CALLING_LOCATION_INFO", "EL_CALLED_LOCATION_INFO", "EL_SEND_RESULT",
      "EL_IMEI", "EL_REFUND_INDICATOR", "EL_MAIN_OFFERING_ID",
      "EL_CHARGING_PARTY_NUMBER", "EL_CHARGE_PARTY_IND", "EL_PAY_TYPE",
      "EL_ON_NET_INDICATOR", "EL_ROAM_STATE", "EL_OPPOSE_NETWORK_TYPE",
      "EL_CALLING_VPN_TOP_GROUP_NUMBER", "EL_CALLING_VPN_GROUP_NUMBER",
      "EL_CALLING_VPN_SHORT_NUMBERs", "EL_CALLED_VPN_TOP_GROUP_NUMBER",
      "EL_CALLED_VPN_GROUP_NUMBER", "EL_CALLED_VPN_SHORT_NUMBER",
      "EL_LAST_EFFECT_OFFERING", "EL_ALTERNATE_ID", "EL_HOME_ZONE_ID",
      "EL_USER_STATE", "EL_PAY_DEFAULT_ACCT_ID", "EL_TAX1", "EL_TAX2",
      "EL_USER_GROUP_ID", "EL_BUSINESS_TYPE", "EL_SUBSCRIBER_KEY",
      "EL_ACCOUNT_KEY", "EL_DISCOUNT_OF_LAST_EFF_PROD">>

\* The aggregated additionalBalanceInfo fields common to the three schemas.
AdditionalKeys ==
    <<"EL_ADDITIONALBALANCEINFO_CHARGINGSERVICENAME",
      "EL_ADDITIONALBALANCEINFO_USAGETYPE",
      "EL_ADDITIONALBALANCEINFO_USEDAS",
      "EL_ADDITIONALBALANCEINFO_BUCKETINFO_BUCKETNAME",
      "EL_ADDITIONALBALANCEINFO_BUCKETINFO_BUCKETUNITTYPE",
      "EL_ADDITIONALBALANCEINFO_BUCKETINFO_BUCKETKINDOFUNIT",
      "EL_ADDITIONALBALANCEINFO_BUCKETINFO_BUCKETBALANCEBEFORE",
      "EL_ADDITIONALBALANCEINFO_BUCKETINFO_BUCKETBALANCEAFTER",
      "EL_ADDITIONALBALANCEINFO_BUCKETINFO_CARRYOVERBUCKET",
      "EL_ADDITIONALBALANCEINFO_BUCKETINFO_BUCKETCOMMITEDUNITS",
      "EL_ADDITIONALBALANCEINFO_BUCKETINFO_BUCKETRESERVEDUNITS",
      "EL_ADDITIONALBALANCEINFO_BUCKETINFO_RATEID",
      "EL_ADDITIONALBALANCEINFO_BUCKETINFO_PRIMARYCOSTCOMMITTED",
      "EL_ADDITIONALBALANCEINFO_BUCKETINFO_SECONDARYCOSTCOMMITTED",
      "EL_ADDITIONALBALANCEINFO_BUCKETINFO_TAXATIONID",
      "EL_ADDITIONALBALANCEINFO_BUCKETINFO_TAXRATEAPPLIED",
      "EL_ADDITIONALBALANCEINFO_BUCKETINFO_COMMITTEDTAXAMOUNT",
      "EL_ADDITIONALBALANCEINFO_BUCKETINFO_TOTALTAXAMOUNT",
      "EL_ADDITIONALBALANCEINFO_BUCKETINFO_TARIFFID">>

\* CANONICAL_FIELDS of voice_usage_datawarehouse_mapper.py (121 fields).
voice_CANONICAL_FIELDS ==
    <<"EL_CDR_ID", "EL_SRC_CDR_ID", "EL_CUST_LOCAL_START_DATE",
      "EL_SESSION_ID", "EL_ACTUAL_USAGE", "EL_RATE_USAGE", "EL_DEBIT_AMOUNT",
      "EL_FREE_UNIT_AMOUNT_OF_DURATION">>
    \o SlotKeys \o Phase3Keys \o AdditionalKeys
    \o <<"EL_ADDITIONALBALANCEINFO_BUCKETINFO_TOTALUNITSCHARGED",
         "EL_ADDITIONALBALANCEINFO_BUCKETINFO_TOTALTIMECHARGED",
         "EL_ADDITIONALBALANCEINFO_BUCKETINFO_ROUNDEDTIMECHARGED",
         "EL_ADDITIONALBALANCEINFO_BUCKETINFO_DELTATIME",
         "EL_UNLTD_BUNDLE_NAME", "EL_UNLTD_TOTAL_TIME_CHARGED",
         "EL_UNLTD_ROUNDED_UNITS_CHARGED", "EL_UNLTD_BUNDLE_UNIT_TYPE",
         "EL_ORIG_LOCATION">>

\* CANONICAL_FIELDS of sms_dwh_bln.py (114 fields).
sms_CANONICAL_FIELDS ==
    <<"EL_CDR_ID", "EL_SRC_CDR_ID", "EL_CUST_LOCAL_START_DATE",
      "EL_DEBIT_AMOUNT", "EL_FREE_UNIT_AMOUNT_OF_DURATION">>
    \o SlotKeys \o Phase3Keys \o AdditionalKeys
    \o <<"EL_ADDITIONALBALANCEINFO_BUCKETINFO_TOTALUNITSCHARGED",
         "EL_UNLTD_BUNDLE_NAME", "EL_UNLTD_ROUNDED_UNITS_CHARGED",
         "EL_UNLTD_BUNDLE_UNIT_TYPE", "EL_ORIG_LOCATION">>

\* The keys of the SMS mapper's `out` dict in insertion order: the literal,
\* then the slot loops, then the aggregated and the phase-5 fields.
sms_out_keys ==
    <<"EL_CDR_ID", "EL_SRC_CDR_ID", "EL_CUST_LOCAL_START_DATE",
      "EL_DEBIT_AMOUNT", "EL_FREE_UNIT_AMOUNT_OF_DURATION">>
    \o Phase3Keys \o SlotKeys \o AdditionalKeys
    \o <<"EL_ADDITIONALBALANCEINFO_BUCKETINFO_TOTALUNITSCHARGED",
         "EL_UNLTD_BUNDLE_NAME", "EL_UNLTD_ROUNDED_UNITS_CHARGED",
         "EL_UNLTD_BUNDLE_UNIT_TYPE", "EL_ORIG_LOCATION">>

\* The keys map_table8_full assigns, in assignment order (115 fields).
TABLE8_FIELDS ==
    <<"EL_CDR_ID", "EL_CDR_SUB_ID", "EL_SRC_CDR_ID",
      "EL_CUST_LOCAL_START_DATE", "EL_RATE_USAGE", "EL_DEBIT_AMOUNT",
      "EL_FREE_UNIT_AMOUNT_OF_DURATION", "EL_FREE_UNIT_AMOUNT_OF_FLUX">>
    \o SlotKeys
    \o <<"EL_CALLING_PARTY_NUMBER", "EL_APN", "EL_URL",
         "EL_CALLING_PARTY_IMSI", "EL_TOTAL_FLUX", "EL_UP_FLUX",
         "EL_DOWN_FLUX", "EL_ELAPSE_DURATION", "EL_IMEI",
         "EL_BEARER_PROTOCOL_TYPE", "EL_MAIN_OFFERING_ID", "EL_PAY_TYPE",
         "EL_CHARGING_TYPE", "EL_ROAM_STATE",
         "EL_CALLING_VPN_TOP_GROUP_NUMBER", "EL_CALLING_VPN_GROUP_NUMBER",
         "EL_START_TIME_OF_BILL_CYCLE", "EL_LAST_EFFECT_OFFERING",
         "EL_RATING_GROUP", "EL_USER_STATE", "EL_RAT_TYPE",
         "EL_CHARGE_PARTY_INDICATOR", "EL_COUNTRY_NAME",
         "EL_PAY_DEFAULT_ACCT_ID", "EL_TAX1", "EL_TAX2", "EL_LOCATION",
         "EL_ALTERNATE_ID", "EL_BUSINESS_TYPE", "EL_SUBSCRIBER_KEY",
         "EL_ACCOUNT_KEY">>
    \o AdditionalKeys
    \o <<"EL_ADDITIONALBALANCEINFO_BUCKETINFO_TOTALVOLUMECHARGED",
         "EL_ADDITIONALBALANCEINFO_BUCKETINFO_ROUNDEDVOLUMECHARGED",
         "EL_ADDITIONALBALANCEINFO_BUCKETINFO_DELTAVOLUME",
         "EL_UNLTD_BUNDLE_NAME", "EL_UNLTD_TOTAL_VOLUME_CHARGED",
         "EL_UNLTD_BUNDLE_UNIT_TYPE", "EL_ORIG_LOCATION">>

\* Dict helpers.
Keys(d) == [i \in 1 .. Len(d) |-> d[i][1]]
HasKey(d, k) == \E i \in 1 .. Len(d) : d[i][1] = k
Get(d, k) == d[CHOOSE i \in 1 .. Len(d) : d[i][1] = k][2]
Range(s) == {s[i] : i \in 1 .. Len(s)}

\* The dict that holds, for the keys of `order` in that order, the value
\* `values` gives the key, and "" for a key `values` does not mention.
DictOf(order, values) ==
    [i \in 1 .. Len(order) |->
        <<order[i],
          IF order[i] \in DOMAIN values THEN values[order[i]] ELSE EMPTY>>]

-----------------------------------------------------------------------------
(***************************************************************************)
(* The input record tree.  cdr_json is                                     *)
(*   [shape, sessionId, totalTimeConsumed, msccs]                          *)
(* shape "wrapped": {"original": {"payload": {"genericRecord": G}}},       *)
(* shape "bare": G itself, shape "empty": {}.  G holds recordElements      *)
(* {sessionId} and a listOfMscc of mscc blocks; the first mscc block has   *)
(* recordElements {totalTimeConsumed}.  An mscc block is a sequence of     *)
(* subscriptionInfo blocks (under one deviceInfo), each                    *)
(*   [bundleName, acct, buckets]                                           *)
(* with one chargingServiceInfo that holds at most one accountInfo `acct`  *)
(* (NONE if there is none) and the bucketInfo blocks `buckets`.  A field   *)
(* that is NONE is a key the JSON object does not have.                    *)
(***************************************************************************)

\* All subscriptionInfo blocks of the record in tree order.
RECURSIVE Flatten(_)
Flatten(ss) == IF ss = << >> THEN << >> ELSE Head(ss) \o Flatten(Tail(ss))

\* s[:n]
Take(s, n) == SubSeq(s, 1, IF Len(s) < n THEN Len(s) ELSE n)

\* dict.get(key, "") or ""
GetOrEmpty(v) == Or(IF v = NONE THEN EMPTY ELSE v, EMPTY)

\* The merge of the functions of a sequence (keys are disjoint).
RECURSIVE MergeAll(_)
MergeAll(fs) == IF fs = << >> THEN << >> ELSE Head(fs) @@ MergeAll(Tail(fs))

(***************************************************************************)
(* data_usage_datawarehouse_mapper.py                                      *)
(***************************************************************************)

\* find_mscc_block + collect_subscription_blocks: the subscriptionInfo
\* blocks of the first mscc block only.
collect_subscription_blocks(rec) ==
    IF rec.msccs = << >> THEN << >> ELSE rec.msccs[1]

\* The debit loop of map_table8_full: the first accountInfo that yields a
\* value decides; BR or committed first, else before - after.
RECURSIVE data_debit_val(_)
data_debit_val(subs) ==
    IF subs = << >> THEN NONE
    ELSE LET acc == Head(subs).acct
             val(direct) ==
                 IF direct # NONE THEN direct
                 ELSE DecDiff(to_decimal(acc.accountBalanceBefore),
                              to_decimal(acc.accountBalanceAfter))
             first(v) == IF v # NONE THEN v ELSE data_debit_val(Tail(subs))
         IN  IF acc = NONE THEN data_debit_val(Tail(subs))
             ELSE first(val(to_decimal(Or(acc.accountBalanceCommittedBR,
                                          acc.accountBalanceCommitted))))

\* extract_account_slots: the accountInfo of each subscriptionInfo, at most
\* max_slots of them, as the strings the slot keeps.
extract_account_slots(subs) ==
    LET withAcct == SelectSeq(subs, LAMBDA s : s.acct # NONE)
        slot(s) ==
            [accountID               |-> GetOrEmpty(s.acct.accountID),
             accountType             |-> GetOrEmpty(s.acct.accountType),
             accountBalanceAfter     |-> GetOrEmpty(s.acct.accountBalanceAfter),
             accountBalanceBefore    |-> GetOrEmpty(s.acct.accountBalanceBefore),
             accountBalanceCommitted |->
                 Or(IF s.acct.accountBalanceCommitted # NONE
                    THEN s.acct.accountBalanceCommitted
                    ELSE IF s.acct.accountBalanceCommittedBR # NONE
                         THEN s.acct.accountBalanceCommittedBR ELSE EMPTY,
                    EMPTY),
             secondaryCostCommitted  |-> GetOrEmpty(s.acct.secondaryCostCommitted),
             rateId                  |-> GetOrEmpty(s.acct.rateId)]
        used == Take(withAcct, MaxSlots)
    IN  [i \in 1 .. MaxSlots |->
            IF i <= Len(used) THEN slot(used[i])
            ELSE [accountID |-> EMPTY, accountType |-> EMPTY,
                  accountBalanceAfter |-> EMPTY, accountBalanceBefore |-> EMPTY,
                  accountBalanceCommitted |-> EMPTY,
                  secondaryCostCommitted |-> EMPTY, rateId |-> EMPTY]]

\* The change-balance of an account slot (map_table8_full, lines 410-428).
data_chg_balance(slot) ==
    LET zero == Dec(0, 0)
        chg(before, after, committed, secondary) ==
            IF before # NONE /\ after # NONE
            THEN IF DecSub(before, after).n < 0
                 THEN DecAdd(DecAdd(zero, IF committed # NONE THEN committed ELSE zero),
                             IF secondary # NONE THEN secondary ELSE zero)
                 ELSE DecSub(before, after)
            ELSE NONE
    IN  chg(to_decimal(slot.accountBalanceBefore),
            to_decimal(slot.accountBalanceAfter),
            to_decimal(slot.accountBalanceCommitted),
            to_decimal(slot.secondaryCostCommitted))

\* One bucket's entry of the joined change list (extract_bucket_slots).
data_bucket_chg(b) ==
    LET chg(before, after) ==
            IF before # NONE /\ after # NONE
            THEN PyStr(IF DecSub(before, after).n < 0
                       THEN GetOrEmpty(b.bucketCommitedUnits)
                       ELSE DecSub(before, after))
            ELSE << >>
    IN  chg(to_decimal(GetOrEmpty(b.bucketBalanceBefore)),
            to_decimal(GetOrEmpty(b.bucketBalanceAfter)))

\* extract_bucket_slots: one slot per subscriptionInfo that has buckets, at
\* most max_slots of them; the buckets of a block are joined with ",".
extract_bucket_slots(subs) ==
    LET withBuckets == SelectSeq(subs, LAMBDA s : s.buckets # << >>)
        slot(s) ==
            LET bundle_name == GetOrEmpty(s.bundleName)
                es == s.buckets
                name(b) == IF Truthy(bundle_name)
                           THEN bundle_name.s \o <<"-">> \o GetOrEmpty(b.bucketName).s
                           ELSE GetOrEmpty(b.bucketName).s
                rated == SelectSeq(es, LAMBDA b : Truthy(GetOrEmpty(b.rateId)))
            IN  [bucket_balance_id  |-> Str(Join([i \in 1 .. Len(es) |-> name(es[i])])),
                 bucket_unit_type   |->
                     Str(Join([i \in 1 .. Len(es) |-> GetOrEmpty(es[i].bucketUnitType).s])),
                 bucket_cur_balance |->
                     Str(Join([i \in 1 .. Len(es) |-> GetOrEmpty(es[i].bucketBalanceAfter).s])),
                 bucket_chg_balance |->
                     Str(Join([i \in 1 .. Len(es) |-> data_bucket_chg(es[i])])),
                 bucket_rate_id     |->
                     Str(Join([i \in 1 .. Len(rated) |-> rated[i].rateId.s]))]
        used == Take(withBuckets, MaxSlots)
    IN  [i \in 1 .. MaxSlots |->
            IF i <= Len(used) THEN slot(used[i])
            ELSE [bucket_balance_id |-> EMPTY, bucket_unit_type |-> EMPTY,
                  bucket_cur_balance |-> EMPTY, bucket_chg_balance |-> EMPTY,
                  bucket_rate_id |-> EMPTY]]

\* extract_bundle_list joined with ",": the non-empty bundle names.
data_main_offering(subs) ==
    LET named == SelectSeq(subs, LAMBDA s : Truthy(s.bundleName))
    IN  Str(Join([i \in 1 .. Len(named) |-> named[i].bundleName.s]))

\* map_table8_full: {} without a genericRecord, else the 115 fields.  The
\* fields not listed here read elements the modelled tree does not carry
\* and come out as "".
map_table8_full(raw) ==
    IF raw.shape # "wrapped" THEN << >>
    ELSE LET subs == collect_subscription_blocks(raw)
             acctValues(slot, i) ==
                 ("EL_ACCT_BALANCE_ID" \o ToString(i) :> slot.accountID)
                 @@ ("EL_BALANCE_TYPE" \o ToString(i) :> slot.accountType)
                 @@ ("EL_CUR_BALANCE" \o ToString(i) :> slot.accountBalanceAfter)
                 @@ ("EL_CHG_BALANCE" \o ToString(i) :> fmt_decimal(data_chg_balance(slot)))
                 @@ ("EL_RATE_ID" \o ToString(i) :> slot.rateId)
             bucketValues(slot, i) ==
                 ("EL_BUCKET_BALANCE_ID" \o ToString(i) :> slot.bucket_balance_id)
                 @@ ("EL_BUCKET_BALANCE_TYPE" \o ToString(i) :> slot.bucket_unit_type)
                 @@ ("EL_BUCKET_CUR_BALANCE" \o ToString(i) :> slot.bucket_cur_balance)
                 @@ ("EL_BUCKET_CHG_BALANCE" \o ToString(i) :> slot.bucket_chg_balance)
                 @@ ("EL_BUCKET_RATE_ID" \o ToString(i) :> slot.bucket_rate_id)
             allValues(acct_slots, bucket_slots) ==
                 ("EL_CDR_ID" :> (IF raw.sessionId = NONE THEN EMPTY ELSE raw.sessionId))
                 @@ ("EL_DEBIT_AMOUNT" :> fmt_decimal(data_debit_val(subs)))
                 @@ ("EL_MAIN_OFFERING_ID" :> data_main_offering(subs))
                 @@ MergeAll([i \in 1 .. MaxSlots |-> acctValues(acct_slots[i], i)])
                 @@ MergeAll([i \in 1 .. MaxSlots |-> bucketValues(bucket_slots[i], i)])
         IN  DictOf(TABLE8_FIELDS,
                    allValues(extract_account_slots(subs), extract_bucket_slots(subs)))

(***************************************************************************)
(* voice_usage_datawarehouse_mapper.py                                     *)
(***************************************************************************)

\* The keys map_voice assigns: every canonical key but the five it never
\* touches.  (enforce_canonical only looks keys up, so the order of this
\* dict is immaterial.)
voice_out_keys ==
    SelectSeq(voice_CANONICAL_FIELDS,
              LAMBDA k : k \notin {"EL_BUSINESS_TYPE", "EL_SUBSCRIBER_KEY",
                                   "EL_ACCOUNT_KEY",
                                   "EL_DISCOUNT_OF_LAST_EFF_PROD",
                                   "EL_ORIG_LOCATION"})

\* EL_ACTUAL_USAGE / EL_RATE_USAGE: the first mscc's totalTimeConsumed as a
\* float, 0.0 if there is none or it does not parse.
voice_usage(cdr) ==
    FloatOrZero(IF cdr.msccs = << >> THEN NONE
                ELSE to_decimal(cdr.totalTimeConsumed))

\* The EL_DEBIT_AMOUNT loop of map_voice over every chargingServiceInfo in
\* tree order; el_debit_amt is the value found so far (NONE if none).
RECURSIVE voice_debit(_, _)
voice_debit(subs, el_debit_amt) ==
    IF subs = << >> THEN el_debit_amt
    ELSE LET has_bucket == Head(subs).buckets # << >>
             account_info == Head(subs).acct
             found(d) ==
                 IF el_debit_amt = NONE /\ d # NONE
                 THEN fmt_decimal_to_float(d) ELSE el_debit_amt
             next ==
                 IF account_info = NONE THEN el_debit_amt
                 ELSE IF ~has_bucket
                 THEN found(to_decimal(
                          IF account_info.accountBalanceCommittedBR # NONE
                          THEN account_info.accountBalanceCommittedBR
                          ELSE account_info.accountBalanceCommitted))
                 ELSE found(DecDiff(to_decimal(account_info.accountBalanceBefore),
                                    to_decimal(account_info.accountBalanceAfter)))
         IN  voice_debit(Tail(subs), next)

\* EL_MAIN_OFFERING_ID: the first bundle name of a block without buckets.
voice_main_offering(subs) ==
    LET cand == SelectSeq(subs, LAMBDA s : Truthy(s.bundleName) /\ s.buckets = << >>)
    IN  IF cand = << >> THEN EMPTY ELSE cand[1].bundleName

\* Phase 2: blocks with buckets feed the bucket slots, the other blocks
\* that have an accountInfo feed the account slots.
voice_bucket_subs(subs) == SelectSeq(subs, LAMBDA s : s.buckets # << >>)
voice_account_only(subs) ==
    SelectSeq(subs, LAMBDA s : s.buckets = << >> /\ s.acct # NONE)

\* The five fields of account slot n (map_voice, lines 590-617).
voice_acct_slot(account_only, n) ==
    IF n <= Len(account_only)
    THEN LET acct == account_only[n].acct
             committed == Or(Or(to_decimal(acct.accountBalanceCommitted),
                                to_decimal(acct.accountBalanceCommittedBR)),
                             Dec(0, 0))
             secondary == Or(to_decimal(acct.secondaryCostCommitted), Dec(0, 0))
             chg(before, cur) ==
                 IF before # NONE /\ cur # NONE
                 THEN IF DecSub(before, cur).n >= 0
                      THEN fmt_decimal_to_float(DecSub(before, cur))
                      ELSE fmt_decimal_to_float(DecAdd(committed, secondary))
                 ELSE Flt(0)
         IN  ("EL_ACCT_BALANCE_ID" \o ToString(n) :> Or(acct.accountID, EMPTY))
             @@ ("EL_BALANCE_TYPE" \o ToString(n) :> Or(acct.accountType, EMPTY))
             @@ ("EL_CUR_BALANCE" \o ToString(n) :>
                    FloatOrZero(to_decimal(acct.accountBalanceAfter)))
             @@ ("EL_CHG_BALANCE" \o ToString(n) :>
                    chg(to_decimal(acct.accountBalanceBefore),
                        to_decimal(acct.accountBalanceAfter)))
             @@ ("EL_RATE_ID" \o ToString(n) :> Or(acct.rateId, EMPTY))
    ELSE ("EL_ACCT_BALANCE_ID" \o ToString(n) :> EMPTY)
         @@ ("EL_BALANCE_TYPE" \o ToString(n) :> EMPTY)
         @@ ("EL_CUR_BALANCE" \o ToString(n) :> Flt(0))
         @@ ("EL_CHG_BALANCE" \o ToString(n) :> Flt(0))
         @@ ("EL_RATE_ID" \o ToString(n) :> EMPTY)

\* One bucket's entry of the joined change list (map_voice, lines 638-651).
voice_bucket_chg(b) ==
    LET committed == Or(to_decimal(Or(b.bucketCommitedUnits, NONE)), Dec(0, 0))
        chg(before, after) ==
            FloatStr(IF before # NONE /\ after # NONE
                        /\ DecSub(before, after).n >= 0
                     THEN DecSub(before, after).n
                     ELSE committed.n)
    IN  chg(to_decimal(b.bucketBalanceBefore), to_decimal(b.bucketBalanceAfter))

\* The five fields of bucket slot n (map_voice, lines 620-659).
voice_bucket_slot(bucket_subs, n) ==
    IF n <= Len(bucket_subs)
    THEN LET bundle  == Or(bucket_subs[n].bundleName, EMPTY)
             buckets == bucket_subs[n].buckets
             named   == SelectSeq(buckets, LAMBDA b : Truthy(b.bucketName))
             names   == Join([i \in 1 .. Len(named) |-> named[i].bucketName.s])
             typed   == SelectSeq(buckets, LAMBDA b : Truthy(b.bucketUnitType))
             rated   == SelectSeq(buckets, LAMBDA b : Truthy(b.rateId))
             id_val  == IF Truthy(bundle) /\ named # << >>
                        THEN Str(bundle.s \o <<"-">> \o names)
                        ELSE Or(bundle, Str(names))
             cur(b)  == FloatStr(FloatOrZero(to_decimal(b.bucketBalanceAfter)).n)
         IN  ("EL_BUCKET_BALANCE_ID" \o ToString(n) :> id_val)
             @@ ("EL_BUCKET_BALANCE_TYPE" \o ToString(n) :>
                    Str(Join([i \in 1 .. Len(typed) |-> typed[i].bucketUnitType.s])))
             @@ ("EL_BUCKET_CUR_BALANCE" \o ToString(n) :>
                    Str(Join([i \in 1 .. Len(buckets) |-> cur(buckets[i])])))
             @@ ("EL_BUCKET_CHG_BALANCE" \o ToString(n) :>
                    Str(Join([i \in 1 .. Len(buckets) |-> voice_bucket_chg(buckets[i])])))
             @@ ("EL_BUCKET_RATE_ID" \o ToString(n) :>
                    Str(Join([i \in 1 .. Len(rated) |-> rated[i].rateId.s])))
    ELSE ("EL_BUCKET_BALANCE_ID" \o ToString(n) :> EMPTY)
         @@ ("EL_BUCKET_BALANCE_TYPE" \o ToString(n) :> EMPTY)
         @@ ("EL_BUCKET_CUR_BALANCE" \o ToString(n) :> Flt(0))
         @@ ("EL_BUCKET_CHG_BALANCE" \o ToString(n) :> Flt(0))
         @@ ("EL_BUCKET_RATE_ID" \o ToString(n) :> EMPTY)

\* The numeric_fields set of the voice enforce_canonical.
voice_numeric_fields ==
    {"EL_DEBIT_AMOUNT", "EL_ON_NET_INDICATOR", "EL_TAX1", "EL_TAX2",
     "EL_UNLTD_ROUNDED_UNITS_CHARGED", "EL_UNLTD_TOTAL_TIME_CHARGED"}
    \cup {"EL_CUR_BALANCE" \o ToString(i) : i \in 1 .. MaxSlots}
    \cup {"EL_CHG_BALANCE" \o ToString(i) : i \in 1 .. MaxSlots}

\* enforce_canonical: exactly the canonical keys in canonical order; a
\* missing, None or "" value becomes 0.0 for a numeric field, "" otherwise.
enforce_canonical(fields, numeric_fields, m) ==
    [i \in 1 .. Len(fields) |->
        <<fields[i],
          IF HasKey(m, fields[i]) /\ Get(m, fields[i]) # NONE
             /\ Get(m, fields[i]) # EMPTY
          THEN Get(m, fields[i])
          ELSE IF fields[i] \in numeric_fields THEN Flt(0) ELSE EMPTY>>]

voice_enforce_canonical(m) ==
    enforce_canonical(voice_CANONICAL_FIELDS, voice_numeric_fields, m)

\* map_voice.  The fields not listed here read elements the modelled tree
\* does not carry (no CBL_TAG, no subscription ids, no location) and are
\* assigned "".
map_voice(cdr) ==
    LET subs == Flatten(cdr.msccs)
        account_only == voice_account_only(subs)
        bucket_subs == voice_bucket_subs(subs)
        el_debit_amt == voice_debit(subs, NONE)
        values ==
            ("EL_CDR_ID" :> Or(cdr.sessionId, EMPTY))
            @@ ("EL_SESSION_ID" :> Or(cdr.sessionId, EMPTY))
            @@ ("EL_ACTUAL_USAGE" :> voice_usage(cdr))
            @@ ("EL_RATE_USAGE" :> voice_usage(cdr))
            @@ ("EL_DEBIT_AMOUNT" :> OrZero(el_debit_amt))
            @@ ("EL_SERVICE_FLOW" :> Str(<<"V", "O", "I", "C", "E">>))
            @@ ("EL_MAIN_OFFERING_ID" :> voice_main_offering(subs))
            @@ ("EL_PAY_TYPE" :> NONE)
            @@ ("EL_ON_NET_INDICATOR" :> PyInt(0))
            @@ ("EL_TAX1" :> Flt(0))
            @@ ("EL_TAX2" :> Flt(0))
            @@ ("EL_UNLTD_TOTAL_TIME_CHARGED" :> Flt(0))
            @@ MergeAll([n \in 1 .. MaxSlots |-> voice_acct_slot(account_only, n)])
            @@ MergeAll([n \in 1 .. MaxSlots |-> voice_bucket_slot(bucket_subs, n)])
    IN  voice_enforce_canonical(DictOf(voice_out_keys, values))

\* s.strip() for blanks.
RECURSIVE Strip(_)
Strip(cs) ==
    IF cs # << >> /\ Head(cs) = " " THEN Strip(Tail(cs))
    ELSE IF cs # << >> /\ cs[Len(cs)] = " " THEN Strip(SubSeq(cs, 1, Len(cs) - 1))
    ELSE cs

\* is_numeric_value of validate_canonical_record.
is_numeric_value(v) ==
    \/ v.t \in {"int", "float"}
    \/ /\ v.t = "str"
       /\ LET parts == SelectSeq([i \in 1 .. Len(Split(v.s)) |-> Strip(Split(v.s)[i])],
                                 LAMBDA p : p # << >>)
          IN  /\ parts # << >>
              /\ \A i \in 1 .. Len(parts) : ParseDecimal(parts[i]).ok

\* validate_canonical_record: key list and order, then the numeric fields.
validate_canonical_record(rec) ==
    /\ Keys(rec) = voice_CANONICAL_FIELDS
    /\ \A k \in voice_numeric_fields
                \cup {"EL_BUCKET_CUR_BALANCE" \o ToString(i) : i \in 1 .. MaxSlots}
                \cup {"EL_BUCKET_CHG_BALANCE" \o ToString(i) : i \in 1 .. MaxSlots} :
          HasKey(rec, k) /\ is_numeric_value(Get(rec, k))

(***************************************************************************)
(* sms_dwh_bln.py                                                          *)
(***************************************************************************)

\* An accountInfo with no recordElements: what .get() on {} returns.
NoAccount ==
    [accountID |-> NONE, accountType |-> NONE, accountBalanceBefore |-> NONE,
     accountBalanceAfter |-> NONE, accountBalanceCommitted |-> NONE,
     accountBalanceCommittedBR |-> NONE, secondaryCostCommitted |-> NONE,
     rateId |-> NONE]

NoBucket ==
    [bucketName |-> NONE, bucketUnitType |-> NONE, bucketBalanceBefore |-> NONE,
     bucketBalanceAfter |-> NONE, bucketCommitedUnits |-> NONE, rateId |-> NONE]

\* extract_account_info_from_mscc: the first accountInfo of an mscc block,
\* {} if it has none.
extract_account_info_from_mscc(mscc_block) ==
    LET withAcct == SelectSeq(mscc_block, LAMBDA s : s.acct # NONE)
    IN  IF withAcct = << >> THEN NoAccount ELSE withAcct[1].acct

\* The EL_DEBIT_AMOUNT loop of map_phase1: per mscc block BR, then
\* committed, then before - after; the first block that yields a value wins.
RECURSIVE sms_debit(_)
sms_debit(mscc_blocks) ==
    IF mscc_blocks = << >> THEN NONE
    ELSE LET first(br, com, diff) ==
                 IF br # NONE THEN fmt_decimal_to_float(br)
                 ELSE IF com # NONE THEN fmt_decimal_to_float(com)
                 ELSE IF diff # NONE THEN fmt_decimal_to_float(diff)
                 ELSE sms_debit(Tail(mscc_blocks))
             debit(account_info) ==
                 first(to_decimal(account_info.accountBalanceCommittedBR),
                       to_decimal(account_info.accountBalanceCommitted),
                       DecDiff(to_decimal(account_info.accountBalanceBefore),
                               to_decimal(account_info.accountBalanceAfter)))
         IN  debit(extract_account_info_from_mscc(Head(mscc_blocks)))

\* account_blocks: the first accountInfo of every mscc block that has one.
sms_account_blocks(mscc_blocks) ==
    LET having == SelectSeq(mscc_blocks,
                            LAMBDA m : extract_account_info_from_mscc(m) # NoAccount)
    IN  [i \in 1 .. Len(having) |-> extract_account_info_from_mscc(having[i])]

\* bucket_blocks: every bucketInfo of the record in tree order.
sms_bucket_blocks(mscc_blocks) ==
    LET subs == Flatten(mscc_blocks)
    IN  Flatten([i \in 1 .. Len(subs) |-> subs[i].buckets])

\* main_offering: the first non-empty bundleName.
sms_main_offering(subs) ==
    LET named == SelectSeq(subs, LAMBDA s : Truthy(s.bundleName))
    IN  IF named = << >> THEN EMPTY ELSE Str(PyStr(named[1].bundleName))

\* x if x is not None else ""
NotNoneOrEmpty(v) == IF v # NONE THEN v ELSE EMPTY

\* float(after) and float(before - after), 0.0 where a balance is missing.
sms_cur(after) == FloatOrZero(to_decimal(after))

sms_chg(before, after) ==
    FloatOrZero(DecDiff(to_decimal(before), to_decimal(after)))

\* The five fields of account slot n (map_phase1, lines 488-503).
sms_acct_slot(account_blocks, n) ==
    LET acct == IF n <= Len(account_blocks) THEN account_blocks[n] ELSE NoAccount
    IN  ("EL_ACCT_BALANCE_ID" \o ToString(n) :> NotNoneOrEmpty(acct.accountID))
        @@ ("EL_BALANCE_TYPE" \o ToString(n) :> NotNoneOrEmpty(acct.accountType))
        @@ ("EL_CUR_BALANCE" \o ToString(n) :> sms_cur(acct.accountBalanceAfter))
        @@ ("EL_CHG_BALANCE" \o ToString(n) :>
               sms_chg(acct.accountBalanceBefore, acct.accountBalanceAfter))
        @@ ("EL_RATE_ID" \o ToString(n) :> NotNoneOrEmpty(acct.rateId))

\* The five fields of bucket slot n (map_phase1, lines 505-519).
sms_bucket_slot(bucket_blocks, n) ==
    LET b == IF n <= Len(bucket_blocks) THEN bucket_blocks[n] ELSE NoBucket
    IN  ("EL_BUCKET_BALANCE_ID" \o ToString(n) :> NotNoneOrEmpty(b.bucketName))
        @@ ("EL_BUCKET_BALANCE_TYPE" \o ToString(n) :> NotNoneOrEmpty(b.bucketUnitType))
        @@ ("EL_BUCKET_CUR_BALANCE" \o ToString(n) :> sms_cur(b.bucketBalanceAfter))
        @@ ("EL_BUCKET_CHG_BALANCE" \o ToString(n) :>
               sms_chg(b.bucketBalanceBefore, b.bucketBalanceAfter))
        @@ ("EL_BUCKET_RATE_ID" \o ToString(n) :> NotNoneOrEmpty(b.rateId))

\* The numeric_fields set of the SMS enforce_canonical.
sms_numeric_fields ==
    {"EL_DEBIT_AMOUNT", "EL_ON_NET_INDICATOR", "EL_TAX1", "EL_TAX2",
     "EL_UNLTD_ROUNDED_UNITS_CHARGED"}
    \cup {"EL_CUR_BALANCE" \o ToString(i) : i \in 1 .. MaxSlots}
    \cup {"EL_CHG_BALANCE" \o ToString(i) : i \in 1 .. MaxSlots}
    \cup {"EL_BUCKET_CUR_BALANCE" \o ToString(i) : i \in 1 .. MaxSlots}
    \cup {"EL_BUCKET_CHG_BALANCE" \o ToString(i) : i \in 1 .. MaxSlots}
    \cup {"EL_ADDITIONALBALANCEINFO_BUCKETINFO_BUCKETBALANCEBEFORE",
          "EL_ADDITIONALBALANCEINFO_BUCKETINFO_BUCKETBALANCEAFTER",
          "EL_ADDITIONALBALANCEINFO_BUCKETINFO_BUCKETCOMMITEDUNITS",
          "EL_ADDITIONALBALANCEINFO_BUCKETINFO_BUCKETRESERVEDUNITS",
          "EL_ADDITIONALBALANCEINFO_BUCKETINFO_PRIMARYCOSTCOMMITTED",
          "EL_ADDITIONALBALANCEINFO_BUCKETINFO_SECONDARYCOSTCOMMITTED",
          "EL_ADDITIONALBALANCEINFO_BUCKETINFO_TAXRATEAPPLIED",
          "EL_ADDITIONALBALANCEINFO_BUCKETINFO_COMMITTEDTAXAMOUNT",
          "EL_ADDITIONALBALANCEINFO_BUCKETINFO_TOTALTAXAMOUNT",
          "EL_ADDITIONALBALANCEINFO_BUCKETINFO_TOTALUNITSCHARGED"}

sms_enforce_canonical(m) ==
    enforce_canonical(sms_CANONICAL_FIELDS, sms_numeric_fields, m)

\* map_phase1.  `defined` tells whether the name enforce_canonical is bound
\* when the function runs: the script calls main() before the def statement
\* is reached, so under `python sms_dwh_bln.py` the call raises NameError
\* and the except branch returns `out` as built; an importing program sees
\* the name bound.  The fields not listed here read elements the modelled
\* tree does not carry and are "".
map_phase1(cdr, defined) ==
    LET mscc_blocks == cdr.msccs
        el_debit_amount == sms_debit(mscc_blocks)
        account_blocks == sms_account_blocks(mscc_blocks)
        bucket_blocks == sms_bucket_blocks(mscc_blocks)
        values ==
            ("EL_CDR_ID" :> Or(cdr.sessionId, EMPTY))
            @@ ("EL_DEBIT_AMOUNT" :> OrZero(el_debit_amount))
            @@ ("EL_MAIN_OFFERING_ID" :> sms_main_offering(Flatten(mscc_blocks)))
            @@ ("EL_TAX1" :> Flt(0))
            @@ ("EL_TAX2" :> Flt(0))
            @@ MergeAll([n \in 1 .. MaxSlots |-> sms_acct_slot(account_blocks, n)])
            @@ MergeAll([n \in 1 .. MaxSlots |-> sms_bucket_slot(bucket_blocks, n)])
        canonical(out) == IF defined THEN sms_enforce_canonical(out) ELSE out
    IN  canonical(DictOf(sms_out_keys, values))

\* process_input_file of the SMS script: enforce_canonical(map_phase1(rec)),
\* and map_phase1(rec) again when that raises.
sms_process_record(cdr, defined) ==
    LET canonical(mapped_rec) ==
            IF defined THEN sms_enforce_canonical(mapped_rec) ELSE mapped_rec
    IN  canonical(map_phase1(cdr, defined))

(***************************************************************************)
(* cbl.py: compute_el_fields                                               *)
(***************************************************************************)

\* float(x or 0) for a string of the plain decimal forms.
FloatOf(v) ==
    IF ~Truthy(v) THEN Flt(0) ELSE Flt(ParseDecimal(PyStr(v)).n)

\* a - b in binary floating point.  The result is exact when both operands
\* are integers; otherwise it is the double nearest the difference of two
\* rounded operands, which need not be the double nearest n/10^5 (Python:
\* 100.12345 - 40.0 == 60.123450000000005).
FloatSub(a, b) ==
    [t |-> "float", n |-> a.n - b.n,
     exact |-> (a.n % Scale = 0 /\ b.n % Scale = 0)]

\* get_charging_service_info_from_subscription_node for every
\* subscriptionInfo in tree order: the accountInfo and the last bucketInfo.
cbl_subscription_infos(cdr) ==
    LET subs == Flatten(cdr.msccs)
    IN  [i \in 1 .. Len(subs) |->
            [accountInfo |-> subs[i].acct,
             bucketInfo  |-> IF subs[i].buckets = << >> THEN NONE
                             ELSE subs[i].buckets[Len(subs[i].buckets)]]]

\* Step 9 of compute_el_fields: the first subscription with an accountInfo
\* decides; committed without a bucket, before - after with one.
cbl_debit_amount(subscription_infos) ==
    LET deciding == SelectSeq(subscription_infos, LAMBDA s : s.accountInfo # NONE)
    IN  IF deciding = << >> THEN Flt(0)
        ELSE LET s == deciding[1]
             IN  IF s.bucketInfo = NONE
                 THEN FloatOf(s.accountInfo.accountBalanceCommitted)
                 ELSE FloatSub(FloatOf(s.accountInfo.accountBalanceBefore),
                               FloatOf(s.accountInfo.accountBalanceAfter))

\* The genericRecord process_file hands to compute_el_fields.  For cbl the
\* shape "wrapped" is the file {"payload": {"genericRecord": G}}; from a
\* file that is G itself, or {}, process_file keeps the root recordElements
\* only.
cbl_generic(data) ==
    IF data.shape = "wrapped" THEN data ELSE [data EXCEPT !.msccs = << >>]

\* compute_el_fields.  The modelled tree carries no account type, result
\* code, event type, timestamp, subscription id or group, so the other
\* nine fields take the values the code gives for their absence.
compute_el_fields(cdr) ==
    <<  <<"EL_PRE_POST", Str(<<"U", "N", "K", "N", "O", "W", "N">>)>>,
        <<"EL_SUCCESS", PyInt(0)>>,
        <<"EL_CUST_CARE", PyInt(1)>>,
        <<"EL_BILLING", PyInt(0)>>,
        <<"EL_REC_TYPE", Str(<<"U", "N", "K", "N", "O", "W", "N">>)>>,
        <<"EL_EVENT_LABEL_VAL", PyInt(0)>>,
        <<"EL_DATE_DAY", Str(<<"0", "0", "0", "0", "0", "0", "0", "0">>)>>,
        <<"EL_MONTH_VAL_CIRCLE_ID", Str(<<"0", "0", "_", "0">>)>>,
        <<"EL_DEBIT_AMOUNT", cbl_debit_amount(cbl_subscription_infos(cdr))>>,
        <<"EL_GROUP_USAGE", PyInt(0)>>  >>

-----------------------------------------------------------------------------
(***************************************************************************)
(* The input records the mappers are run on.                               *)
(***************************************************************************)

\* The most blocks of one kind a record repeats.
MaxOccurrences == 7

A0 == Str(<<"0">>)
A3 == Str(<<"3">>)
A7 == Str(<<"7">>)
A9 == Str(<<"9">>)
A20 == Str(<<"2", "0">>)
A25 == Str(<<"2", "5">>)
A50 == Str(<<"5", "0">>)
A70 == Str(<<"7", "0">>)
A100 == Str(<<"1", "0", "0">>)
A12_5 == Str(<<"1", "2", ".", "5">>)
A40_00000 == Str(<<"4", "0", ".", "0", "0", "0", "0", "0">>)
A100_12345 == Str(<<"1", "0", "0", ".", "1", "2", "3", "4", "5">>)
NotANumber == Str(<<"a", "b", "c">>)

\* The i-th accountInfo / bucketInfo / subscriptionInfo of a record; the
\* identifiers carry the index so that a slot tells which block filled it.
Account(i, before, after, committed, committedBR, secondary) ==
    [accountID |-> Str(<<"A", Digits[i + 1]>>), accountType |-> NONE,
     accountBalanceBefore |-> before, accountBalanceAfter |-> after,
     accountBalanceCommitted |-> committed,
     accountBalanceCommittedBR |-> committedBR,
     secondaryCostCommitted |-> secondary,
     rateId |-> Str(<<"R", Digits[i + 1]>>)]

Bucket(letter, i, before, after, units) ==
    [bucketName |-> Str(<<letter, Digits[i + 1]>>),
     bucketUnitType |-> Str(<<"U">>),
     bucketBalanceBefore |-> before, bucketBalanceAfter |-> after,
     bucketCommitedUnits |-> units,
     rateId |-> IF i % 2 = 1 THEN Str(<<"Q", Digits[i + 1]>>) ELSE NONE]

Sub(bundle, acct, buckets) ==
    [bundleName |-> bundle, acct |-> acct, buckets |-> buckets]

Cdr(shape, sessionId, totalTimeConsumed, msccs) ==
    [shape |-> shape, sessionId |-> sessionId,
     totalTimeConsumed |-> totalTimeConsumed, msccs |-> msccs]

EmptyCdr == Cdr("empty", NONE, NONE, << >>)

\* One account under every combination of balance fields, alone or beside
\* one bucket.
AccountPool ==
    {Account(1, b, a, c, r, s) :
        b \in {NONE, A100, A70, A100_12345}, a \in {NONE, A70, A100, A40_00000},
        c \in {NONE, EMPTY, A0, A25}, r \in {NONE, A7}, s \in {NONE, A3}}

SingleAccountRecords ==
    {Cdr("wrapped", Str(<<"s", "1">>), A12_5, << <<Sub(NONE, acct, buckets)>> >>) :
        acct \in AccountPool,
        buckets \in {<< >>, <<Bucket("B", 1, A50, A20, NONE)>>}}

\* One bucket under every combination of balance fields.
SingleBucketRecords ==
    {Cdr("wrapped", NONE, NONE,
         << <<Sub(bundle, NONE, <<Bucket("B", 1, b, a, u)>>)>> >>) :
        bundle \in {NONE, Str(<<"N", "1">>)},
        b \in {NONE, A50, A20}, a \in {NONE, A50, A20}, u \in {NONE, A9}}

\* k blocks of one kind, the first `first` of them under the first mscc
\* block and the rest under a second one.
SlotBlock(kind, i) ==
    CASE kind = "acct"   -> Sub(Str(<<"N", Digits[i + 1]>>),
                                Account(i, A100, A70, NONE, NONE, NONE), << >>)
      [] kind = "bucket" -> Sub(NONE, NONE, <<Bucket("B", i, A50, A20, NONE)>>)
      [] kind = "both"   -> Sub(Str(<<"N", Digits[i + 1]>>),
                                Account(i, A70, A100, A25, NONE, A3),
                                <<Bucket("B", i, A20, A50, A9)>>)
      [] OTHER           -> Sub(Str(<<"N", Digits[i + 1]>>), NONE,
                                <<Bucket("B", i, A50, A20, NONE),
                                  Bucket("C", i, NONE, A20, A9)>>)

SlotRecords ==
    {Cdr("wrapped", NONE, NONE,
         IF first = k THEN << [i \in 1 .. k |-> SlotBlock(kind, i)] >>
         ELSE << [i \in 1 .. first |-> SlotBlock(kind, i)],
                 [i \in 1 .. k - first |-> SlotBlock(kind, first + i)] >>) :
        kind \in {"acct", "bucket", "both", "pair"},
        k \in 1 .. MaxOccurrences, first \in 1 .. MaxOccurrences}
    \ {Cdr("wrapped", NONE, NONE, << >>)}

\* The three shapes of the input, with and without the root elements.
ShapeRecords ==
    {EmptyCdr}
    \cup {Cdr(shape, sid, ttc, msccs) :
            shape \in {"wrapped", "bare"},
            sid \in {NONE, Str(<<"s", "1">>)},
            ttc \in {NONE, A12_5, NotANumber},
            msccs \in {<< >>, << <<SlotBlock("acct", 1)>> >>}}

\* Two accounts, the first of which may lack what the debit amount needs.
TwoAccountRecords ==
    {Cdr("wrapped", NONE, NONE,
         IF together THEN << <<Sub(NONE, a1, << >>), Sub(NONE, a2, << >>)>> >>
         ELSE << <<Sub(NONE, a1, << >>)>>, <<Sub(NONE, a2, << >>)>> >>) :
        together \in BOOLEAN,
        a1 \in {Account(1, NONE, NONE, NONE, NONE, NONE),
                Account(1, A100, NONE, EMPTY, NONE, NONE),
                Account(1, A70, A100, NONE, NONE, A3)},
        a2 \in {Account(2, A100, A70, NONE, NONE, NONE),
                Account(2, A100, A70, A25, A7, NONE)}}

\* One subscriptionInfo with two buckets, each with or without a name and
\* with or without a rate id.
BucketPool(i) ==
    {[Bucket("B", i, A50, A20, NONE) EXCEPT !.bucketName = name, !.rateId = rate] :
        name \in {NONE, Str(<<"B", Digits[i + 1]>>)},
        rate \in {NONE, Str(<<"Q", Digits[i + 1]>>)}}

MixedBucketRecords ==
    {Cdr("wrapped", NONE, NONE, << <<Sub(bundle, NONE, <<b1, b2>>)>> >>) :
        bundle \in {NONE, Str(<<"N", "1">>)},
        b1 \in BucketPool(1), b2 \in BucketPool(2)}

CdrInputs ==
    SingleAccountRecords \cup SingleBucketRecords \cup SlotRecords
    \cup ShapeRecords \cup TwoAccountRecords \cup MixedBucketRecords

(***************************************************************************)
(* The mapper scripts, each run once on the input record.                  *)
(***************************************************************************)

\* voice_usage_datawarehouse_mapper.process_input_file, for one record.
VoiceProcessRecord ==
    /\ mapper = "none"
    /\ mapped' = map_voice(cdr_json)
    /\ valid' = validate_canonical_record(mapped')
    /\ mapper' = "voice"
    /\ UNCHANGED <<cdr_json, enforce_defined, notMapper>>

\* data_usage_datawarehouse_mapper.process_file.
DataProcessFile ==
    /\ mapper = "none"
    /\ mapped' = map_table8_full(cdr_json)
    /\ mapper' = "data"
    /\ UNCHANGED <<cdr_json, enforce_defined, valid, notMapper>>

\* sms_dwh_bln.process_input_file, for one record.
SmsProcessRecord ==
    /\ mapper = "none"
    /\ mapped' = sms_process_record(cdr_json, enforce_defined)
    /\ mapper' = "sms"
    /\ UNCHANGED <<cdr_json, enforce_defined, valid, notMapper>>

\* cbl.process_file: the EL fields computed for the record.
CblComputeFields ==
    /\ mapper = "none"
    /\ mapped' = compute_el_fields(cbl_generic(cdr_json))
    /\ mapper' = "cbl"
    /\ UNCHANGED <<cdr_json, enforce_defined, valid, notMapper>>

MapperInit ==
    /\ cdr_json \in CdrInputs
    /\ enforce_defined \in BOOLEAN
    /\ mapper = "none"
    /\ mapped = << >>
    /\ valid = FALSE
    /\ OnlyMapper

MapperNext ==
    \/ VoiceProcessRecord
    \/ DataProcessFile
    \/ SmsProcessRecord
    \/ CblComputeFields

SpecMapper == MapperInit /\ [][MapperNext]_vars

-----------------------------------------------------------------------------
(***************************************************************************)
(* Claims about the mappers, stated over the record `mapped` that the      *)
(* mapper named by `mapper` produced for the input `cdr_json`.             *)
(***************************************************************************)

\* The value the output record holds under key k.
Field(k) == Get(mapped, k)

\* The number a field value reads as, in units of 10^-Places; a missing
\* value, "" and text that is no number read as zero.
NumOf(v) ==
    CASE v.t = "str"             -> ParseDecimal(v.s).n
      [] v.t = "int"             -> v.n * Scale
      [] v.t \in {"float", "dec"} -> v.n
      [] OTHER                   -> 0

\* The input is a wrapped record with exactly one subscriptionInfo, which
\* has an accountInfo that carries no accountBalanceCommittedBR.
OneAccount ==
    /\ cdr_json.shape = "wrapped"
    /\ Len(cdr_json.msccs) = 1
    /\ Len(cdr_json.msccs[1]) = 1
    /\ cdr_json.msccs[1][1].acct # NONE
    /\ cdr_json.msccs[1][1].acct.accountBalanceCommittedBR = NONE

TheSub == cdr_json.msccs[1][1]
TheAccount == TheSub.acct

\* The canonical field list the mapper that ran declares.
DeclaredFields ==
    CASE mapper = "voice" -> voice_CANONICAL_FIELDS
      [] mapper = "sms"   -> sms_CANONICAL_FIELDS
      [] OTHER            -> TABLE8_FIELDS

\* The fields the mapper that ran declares numeric (for the voice mapper,
\* those its enforce_canonical and its validate_canonical_record name).
DeclaredNumeric ==
    IF mapper = "voice"
    THEN voice_numeric_fields
         \cup {"EL_BUCKET_CUR_BALANCE" \o ToString(i) : i \in 1 .. MaxSlots}
         \cup {"EL_BUCKET_CHG_BALANCE" \o ToString(i) : i \in 1 .. MaxSlots}
    ELSE sms_numeric_fields

\* C4: for any input record, an empty tree included, the output record of
\* a mapper has exactly the keys of its declared canonical field list, in
\* the declared order, and no field is absent or null.
C4_CanonicalShape ==
    mapper \in {"voice", "data", "sms"} =>
        /\ Keys(mapped) = DeclaredFields
        /\ \A i \in 1 .. Len(mapped) : mapped[i][2] # NONE

\* C5: in every canonical output record (one that has the declared keys in
\* the declared order) each declared numeric field holds a number or a
\* comma-separated list of numbers, and every other field holds a string.
C5_NumericAndStringFields ==
    (mapper \in {"voice", "sms"} /\ Keys(mapped) = DeclaredFields) =>
        \A i \in 1 .. Len(mapped) :
            IF mapped[i][1] \in DeclaredNumeric
            THEN is_numeric_value(mapped[i][2])
            ELSE mapped[i][2].t = "str"

\* C6: the debit amount follows the priority chain: the explicit committed
\* value when it is present and non-empty, otherwise before - after when
\* both balances are present, otherwise zero.
C6_DebitPriorityChain ==
    (mapper \in {"data", "voice", "cbl"} /\ OneAccount) =>
        NumOf(Field("EL_DEBIT_AMOUNT")) =
            IF TheAccount.accountBalanceCommitted \notin {NONE, EMPTY}
            THEN NumOf(TheAccount.accountBalanceCommitted)
            ELSE IF TheAccount.accountBalanceBefore # NONE
                    /\ TheAccount.accountBalanceAfter # NONE
                 THEN NumOf(TheAccount.accountBalanceBefore)
                      - NumOf(TheAccount.accountBalanceAfter)
                 ELSE 0

\* C7: for an account slot, when before - after is negative the slot's
\* change-balance is the committed value plus the secondary cost, and when
\* it is zero or positive the change-balance is that difference.
C7_SlotChangeBalance ==
    (/\ mapper \in {"data", "voice", "sms"}
     /\ OneAccount
     /\ TheSub.buckets = << >>
     /\ TheAccount.accountBalanceBefore # NONE
     /\ TheAccount.accountBalanceAfter # NONE) =>
        NumOf(Field("EL_CHG_BALANCE1")) =
            IF NumOf(TheAccount.accountBalanceBefore)
                   < NumOf(TheAccount.accountBalanceAfter)
            THEN NumOf(TheAccount.accountBalanceCommitted)
                 + NumOf(TheAccount.secondaryCostCommitted)
            ELSE NumOf(TheAccount.accountBalanceBefore)
                 - NumOf(TheAccount.accountBalanceAfter)

\* The input of C8: one accountInfo with before = 100 and after = 70, no
\* committed value and no bucket block.
C8_Input ==
    /\ OneAccount
    /\ TheSub.buckets = << >>
    /\ TheAccount.accountBalanceBefore = A100
    /\ TheAccount.accountBalanceAfter = A70
    /\ TheAccount.accountBalanceCommitted = NONE

\* C8: for that input the debit amount is 30.0, slot 1 is populated from
\* the account, and slots 2 to 5 hold the type defaults.
C8_EndToEnd ==
    (mapper \in {"data", "voice", "cbl"} /\ C8_Input) =>
        /\ NumOf(Field("EL_DEBIT_AMOUNT")) = 30 * Scale
        /\ mapper # "cbl" =>
            /\ Field("EL_ACCT_BALANCE_ID1") = TheAccount.accountID
            /\ Field("EL_RATE_ID1") = TheAccount.rateId
            /\ NumOf(Field("EL_CUR_BALANCE1")) = 70 * Scale
            /\ NumOf(Field("EL_CHG_BALANCE1")) = 30 * Scale
            /\ \A n \in 2 .. MaxSlots : \A j \in 1 .. 5 :
                   Field(AcctSlotKeys(n)[j]) \in {EMPTY, Flt(0)}

\* The input of C9: seven bucket occurrences B1 .. B7 in tree order, under
\* one mscc block or split over two.
C9_Input ==
    /\ cdr_json.shape = "wrapped"
    /\ Flatten(cdr_json.msccs) = [i \in 1 .. 7 |-> SlotBlock("bucket", i)]

\* C9: for a record with 7 bucket occurrences exactly the bucket slots 1 to
\* 5 are populated, from occurrences 1 to 5 in encounter order; occurrences
\* 6 and 7 are in no slot.
C9_SlotCap ==
    (mapper \in {"data", "voice", "sms"} /\ C9_Input) =>
        \A n \in 1 .. MaxSlots :
            /\ Field("EL_BUCKET_BALANCE_ID" \o ToString(n))
                   = Bucket("B", n, A50, A20, NONE).bucketName
            /\ Field("EL_BUCKET_RATE_ID" \o ToString(n))
                   = NotNoneOrEmpty(Bucket("B", n, A50, A20, NONE).rateId)

\* The input of C10: one accountInfo with before = "100.12345" and
\* after = "40.00000" and no committed value.
C10_Input ==
    /\ OneAccount
    /\ TheAccount.accountBalanceBefore = A100_12345
    /\ TheAccount.accountBalanceAfter = A40_00000
    /\ TheAccount.accountBalanceCommitted = NONE

\* Value v is the decimal n/10^Places with no rounding error: a string
\* that writes it, or a float known to be the double nearest to it.
ReadsExactly(v, n) ==
    \/ v.t = "str" /\ ParseDecimal(v.s).ok /\ ParseDecimal(v.s).n = n
    \/ v.t = "float" /\ v.exact /\ v.n = n

\* C10: with before = "100.12345" and after = "40.00000" the derived
\* balance change (the slot's change-balance, and the debit amount where
\* it is computed as before - after) is exactly 60.12345, free of binary
\* floating-point error.
C10_ExactDecimal ==
    /\ (mapper \in {"data", "voice"} /\ C10_Input /\ TheSub.buckets = << >>) =>
           ReadsExactly(Field("EL_CHG_BALANCE1"),
                        NumOf(A100_12345) - NumOf(A40_00000))
    /\ (mapper = "cbl" /\ C10_Input /\ TheSub.buckets # << >>) =>
           ReadsExactly(Field("EL_DEBIT_AMOUNT"),
                        NumOf(A100_12345) - NumOf(A40_00000))

\* The subscriptionInfo blocks with buckets, in tree order: block n fills
\* bucket slot n.
BucketBlocks ==
    SelectSeq(Flatten(cdr_json.msccs), LAMBDA s : s.buckets # << >>)

\* The comma-separated entries of the output field with key k.
Entries(k) == Split(PyStr(Field(k)))

\* Sequence s ends with sequence e.
EndsWith(s, e) ==
    Len(e) <= Len(s) /\ SubSeq(s, Len(s) - Len(e) + 1, Len(s)) = e

\* Bucket slot n has one entry per bucket in each of its five fields.
SameEntryCount(n, buckets) ==
    \A j \in 1 .. 5 : Len(Entries(BucketSlotKeys(n)[j])) = Len(buckets)

\* Entry i of the id, type, current-balance and rate-id fields of bucket
\* slot n is the name, unit type, balance after and rate id of bucket b.
EntryFromBucket(n, i, b) ==
    /\ EndsWith(Entries(BucketSlotKeys(n)[1])[i], GetOrEmpty(b.bucketName).s)
    /\ Entries(BucketSlotKeys(n)[2])[i] = GetOrEmpty(b.bucketUnitType).s
    /\ NumOf(Str(Entries(BucketSlotKeys(n)[3])[i])) = NumOf(GetOrEmpty(b.bucketBalanceAfter))
    /\ Entries(BucketSlotKeys(n)[5])[i] = GetOrEmpty(b.rateId).s

\* C24: within one bucket slot that joins several buckets, each of the
\* five parallel fields (id/name, unit type, current balance, change
\* balance, rate id) has as many comma-separated entries as the block has
\* buckets, and entry i of a field comes from the i-th bucket.
C24_ParallelEntries ==
    (mapper \in {"data", "voice"} /\ cdr_json.shape = "wrapped") =>
        \A n \in 1 .. MaxSlots :
            (n <= Len(BucketBlocks) /\ Len(BucketBlocks[n].buckets) >= 2) =>
                /\ SameEntryCount(n, BucketBlocks[n].buckets)
                /\ \A i \in 1 .. Len(BucketBlocks[n].buckets) :
                       EntryFromBucket(n, i, BucketBlocks[n].buckets[i])

-----------------------------------------------------------------------------
(***************************************************************************)
(* Part III.  decode_location_hex_field of the data and voice mappers.     *)
(* The location string is a sequence of characters.                        *)
(***************************************************************************)

HexUpper ==
    <<"0", "1", "2", "3", "4", "5", "6", "7", "8", "9",
      "A", "B", "C", "D", "E", "F">>

HexLower ==
    <<"0", "1", "2", "3", "4", "5", "6", "7", "8", "9",
      "a", "b", "c", "d", "e", "f">>

\* The value of one hex digit, -1 for any other character.
HexVal(c) ==
    IF IndexOf(HexUpper, c) > 0 THEN IndexOf(HexUpper, c) - 1
    ELSE IndexOf(HexLower, c) - 1

\* int(cs, 16) succeeds.
IsHex(cs) == cs # << >> /\ \A i \in 1 .. Len(cs) : HexVal(cs[i]) >= 0

\* int(cs, 16)
RECURSIVE HexToNat(_)
HexToNat(cs) ==
    IF cs = << >> THEN 0
    ELSE 16 * HexToNat(SubSeq(cs, 1, Len(cs) - 1)) + HexVal(cs[Len(cs)])

Min(a, b) == IF a < b THEN a ELSE b

\* s[a:b] for 0 <= a, 0 <= b.
Slice(s, a, b) == SubSeq(s, a + 1, Min(b, Len(s)))

\* s[-a:-b] for a > b >= 0 (s[-a:] when b = 0).
SliceFromEnd(s, a, b) ==
    Slice(s, Max(Len(s) - a, 0), Max(Len(s) - b, 0))

\* s.replace(c, '') for each character c of cs.
Without(s, cs) == SelectSeq(s, LAMBDA c : c \notin cs)

\* "".join(p[::-1] for p in pairs), pairs the 2-character pieces of s.
RECURSIVE SwapPairs(_)
SwapPairs(s) ==
    IF Len(s) = 0 THEN << >>
    ELSE IF Len(s) = 1 THEN s
    ELSE <<s[2], s[1]>> \o SwapPairs(SubSeq(s, 3, Len(s)))

\* last_n_chars of the data mapper (strips white space first).
data_last_n_chars(s, n) ==
    LET last(stripped) ==
            IF Len(stripped) >= n THEN SliceFromEnd(stripped, n, 0)
            ELSE stripped
    IN  IF s = << >> THEN << >> ELSE last(Strip(s))

\* last_n_chars of the voice mapper.
voice_last_n_chars(s, n) ==
    IF s = << >> THEN << >>
    ELSE IF Len(s) >= n THEN SliceFromEnd(s, n, 0) ELSE s

\* f"{a}-{b}-{c}-{d}"
Dashed(parts) ==
    IF Len(parts) = 3
    THEN parts[1] \o <<"-">> \o parts[2] \o <<"-">> \o parts[3]
    ELSE parts[1] \o <<"-">> \o parts[2] \o <<"-">> \o parts[3]
         \o <<"-">> \o parts[4]

\* int(eci_hex, 16), 0 when it raises.
EciInt(eci_hex) == IF IsHex(eci_hex) THEN HexToNat(eci_hex) ELSE 0

\* decode_location_hex_field of data_usage_datawarehouse_mapper.
data_decode_location_hex_field(hex) ==
    LET short(s14) ==
            IF s14 = << >> THEN << >>
            ELSE Dashed(<<SliceFromEnd(s14, 14, 8), SliceFromEnd(s14, 8, 4),
                          SliceFromEnd(s14, 4, 0)>>)
        long(s, eci_int) ==
            Dashed(<<Without(SwapPairs(Slice(s, 4, 10)), {"F"}),
                     NatToChars(IF IsHex(Slice(s, 0, 4))
                                THEN HexToNat(Slice(s, 0, 4)) ELSE 0),
                     NatToChars(eci_int % 256),
                     NatToChars(eci_int \div 256)>>)
        decode(s) ==
            IF Len(s) < 18 THEN short(data_last_n_chars(hex, 14))
            ELSE long(s, EciInt(Slice(s, 10, 18)))
    IN  IF hex = << >> THEN << >> ELSE decode(data_last_n_chars(hex, 18))

\* decode_location_hex_field of voice_usage_datawarehouse_mapper.
voice_decode_location_hex_field(hex) ==
    LET short(s14) ==
            IF s14 = << >> THEN << >>
            ELSE Dashed(<<Slice(s14, 0, 6), Slice(s14, 6, 10),
                          Slice(s14, 10, 14)>>)
        long(s, eci_int) ==
            Dashed(<<Without(SwapPairs(Slice(s, 4, 10)), {"F", "f"}),
                     IF IsHex(Slice(s, 0, 4))
                     THEN NatToChars(HexToNat(Slice(s, 0, 4)))
                     ELSE Slice(s, 0, 4),
                     NatToChars(eci_int % 256),
                     NatToChars(eci_int \div 256)>>)
        decode(s) ==
            IF Len(s) < 18 THEN short(voice_last_n_chars(hex, 14))
            ELSE long(s, EciInt(Slice(s, 10, 18)))
    IN  IF hex = << >> THEN << >> ELSE decode(voice_last_n_chars(hex, 18))

(***************************************************************************)
(* The location strings tried: every combination of a leading part, a TAC, *)
(* an MCC/MNC field and an ECI, and strings shorter than 18 characters.    *)
(***************************************************************************)
LeadingChars == {<< >>, <<"8">>, <<"A", "b">>}

TacFields ==
    {<<"0", "0", "1", "2">>, <<"0", "0", "f", "F">>, <<"1", "A", "0", "0">>}

MccMncFields ==
    {<<"0", "0", "F", "1", "F", "2">>, <<"0", "0", "f", "1", "f", "2">>,
     <<"2", "1", "F", "3", "5", "4">>, <<"1", "3", "0", "0", "6", "2">>}

EciFields ==
    {<<"0", "0", "0", "0", "0", "1", "0", "1">>,
     <<"0", "0", "0", "0", "0", "1", "F", "F">>,
     <<"0", "0", "0", "1", "0", "2", "0", "3">>,
     <<"0", "0", "0", "0", "0", "0", "0", "0">>}

ShortLocations ==
    {<< >>, <<"1", "2", "3", "4", "5">>,
     <<"0", "0", "F", "1", "F", "2", "0", "0", "0", "0", "0", "1", "0", "1">>,
     <<"1", "2", "0", "0", "F", "1", "F", "2", "0", "0", "0", "0", "0", "1",
       "0", "1">>}

LocationInputs ==
    ShortLocations
    \cup {lead \o tac \o mccmnc \o eci :
            lead \in LeadingChars, tac \in TacFields,
            mccmnc \in MccMncFields, eci \in EciFields}

\* map_table8_full deriving EL_LOCATION from userLocationInformation.
DataDecodeLocation ==
    /\ loc_mapper = "none"
    /\ loc_out' = data_decode_location_hex_field(hexstr)
    /\ loc_mapper' = "data"
    /\ UNCHANGED <<hexstr, notLoc>>

\* map_voice deriving EL_CALLING_LOCATION_INFO from userLocationInfo.
VoiceDecodeLocation ==
    /\ loc_mapper = "none"
    /\ loc_out' = voice_decode_location_hex_field(hexstr)
    /\ loc_mapper' = "voice"
    /\ UNCHANGED <<hexstr, notLoc>>

LocInit ==
    /\ hexstr \in LocationInputs
    /\ loc_mapper = "none"
    /\ loc_out = << >>
    /\ OnlyLoc

LocNext ==
    \/ DataDecodeLocation
    \/ VoiceDecodeLocation

SpecLoc == LocInit /\ [][LocNext]_vars

(***************************************************************************)
(* Claims about the location decoder.                                      *)
(***************************************************************************)

\* The last 18 characters of the location string.
Tail18 == SubSeq(hexstr, Len(hexstr) - 17, Len(hexstr))

\* The location string of the worked example: 0012 00F1F2 00000101.
C11_Example ==
    Tail18 = <<"0", "0", "1", "2", "0", "0", "F", "1", "F", "2",
               "0", "0", "0", "0", "0", "1", "0", "1">>

\* C11: for a location string of at least 18 hex characters the decoder
\* returns "{mccmnc}-{tac}-{enb}-{cell}" of the last 18: tac is
\* characters 1-4 read as hex and printed in decimal, mccmnc is characters
\* 5-10 with the two digits of each pair reversed and every F and f
\* removed, enb is characters 11-18 mod 256 and cell is characters 11-18
\* div 256; the worked example gives TAC 18, enb 1 and cell 1.
C11_LocationDecode ==
    (loc_mapper # "none" /\ Len(hexstr) >= 18 /\ IsHex(hexstr)) =>
        /\ loc_out =
             SelectSeq(<<Tail18[6], Tail18[5], Tail18[8], Tail18[7],
                         Tail18[10], Tail18[9]>>,
                       LAMBDA c : c # "F" /\ c # "f")
             \o <<"-">> \o NatToChars(HexToNat(SubSeq(Tail18, 1, 4)))
             \o <<"-">> \o NatToChars(HexToNat(SubSeq(Tail18, 11, 18)) % 256)
             \o <<"-">> \o NatToChars(HexToNat(SubSeq(Tail18, 11, 18)) \div 256)
        /\ C11_Example =>
             loc_out = <<"0", "0", "1", "2", "-", "1", "8", "-", "1", "-", "1">>

-----------------------------------------------------------------------------
(***************************************************************************)
(* Part IV.  cbl.py: evaluate_condition and route_using_config.            *)
(* The EL fields are a function from field names to Python values, a rule  *)
(* is [name, conditions] with conditions a sequence of <<key, condition>>  *)
(* pairs, and a written file is [name, dir] with dir its directory, a      *)
(* sequence of path components.                                            *)
(***************************************************************************)

LowerCase ==
    <<"a", "b", "c", "d", "e", "f", "g", "h", "i", "j", "k", "l", "m",
      "n", "o", "p", "q", "r", "s", "t", "u", "v", "w", "x", "y", "z">>

UpperCase ==
    <<"A", "B", "C", "D", "E", "F", "G", "H", "I", "J", "K", "L", "M",
      "N", "O", "P", "Q", "R", "S", "T", "U", "V", "W", "X", "Y", "Z">>

\* The character at the place of c in the other alphabet, c if it has none.
Recase(c, from, to) ==
    LET at(i) == IF i = 0 THEN c ELSE to[i] IN at(IndexOf(from, c))

\* s.upper() and s.lower()
Upper(s) == [i \in 1 .. Len(s) |-> Recase(s[i], LowerCase, UpperCase)]
Lower(s) == [i \in 1 .. Len(s) |-> Recase(s[i], UpperCase, LowerCase)]

StartsWith(s, prefix) ==
    Len(s) >= Len(prefix) /\ SubSeq(s, 1, Len(prefix)) = prefix

\* The comparison operators, in the order evaluate_condition tries them.
ConditionOps ==
    << <<">", "=">>, <<"<", "=">>, <<">">>, <<"<">>, <<"!", "=">>,
       <<"=", "=">> >>

\* Position of the first operator the condition starts with, 0 for none.
FirstOp(cond) ==
    LET least(S) == IF S = {} THEN 0
                    ELSE CHOOSE i \in S : \A j \in S : i <= j
    IN  least({i \in 1 .. Len(ConditionOps) : StartsWith(cond, ConditionOps[i])})

\* float(val): [ok, n] with n scaled by 10^5, ok = FALSE when it raises.
ToFloat(val) ==
    CASE val.t = "int"   -> [ok |-> TRUE, n |-> val.n * Scale, e |-> 0]
      [] val.t = "float" -> [ok |-> TRUE, n |-> val.n, e |-> 0]
      [] val.t = "str"   -> ParseDecimal(Strip(val.s))
      [] OTHER           -> [ok |-> FALSE, n |-> 0, e |-> 0]

\* val_num <op> rhs_num
NumCompare(op, a, b) ==
    CASE op = 1 -> a >= b
      [] op = 2 -> a <= b
      [] op = 3 -> a > b
      [] op = 4 -> a < b
      [] op = 5 -> a # b
      [] OTHER  -> a = b

\* The branch of evaluate_condition for a condition that starts with the
\* operator number op and has the text rhs after it.
OpCondition(val, op, rhs) ==
    LET compare(val_num, rhs_num) ==
            IF rhs_num.ok
            THEN val_num.ok /\ NumCompare(op, val_num.n, rhs_num.n)
            ELSE IF op = 6 THEN PyStr(val) = rhs
            ELSE IF op = 5 THEN PyStr(val) # rhs
            ELSE FALSE
    IN  compare(ToFloat(val), ParseDecimal(rhs))

\* evaluate_condition(record_fields, key, condition)
evaluate_condition(record_fields, key, condition) ==
    LET numeric(val_num) == val_num.ok /\ val_num.n = ToFloat(condition).n
        text(val, cond, op) ==
            IF op = 0 THEN PyStr(val) = cond
            ELSE OpCondition(val, op,
                     Strip(SubSeq(cond, Len(ConditionOps[op]) + 1, Len(cond))))
        eval(val) ==
            IF condition.t \in {"int", "float"} THEN numeric(ToFloat(val))
            ELSE IF condition.t = "str"
            THEN text(val, Strip(condition.s), FirstOp(Strip(condition.s)))
            ELSE val = condition
    IN  IF key \notin DOMAIN record_fields THEN FALSE
        ELSE eval(record_fields[key])

\* The `match` flag of route_using_config: every condition of the rule holds.
rule_matches(rule, fields) ==
    \A i \in 1 .. Len(rule.conditions) :
        evaluate_condition(fields, rule.conditions[i][1], rule.conditions[i][2])

\* el_fields.get(key)
FieldOrNone(fields, key) ==
    IF key \in DOMAIN fields THEN fields[key] ELSE NONE

\* Names and values of the configuration and of the EL fields.
N_CRM == <<"C", "R", "M">>
N_BILLING == <<"B", "I", "L", "L", "I", "N", "G">>
N_LMS == <<"L", "M", "S">>
N_RA == <<"R", "A">>
N_DWH == <<"D", "W", "H">>
N_ECOMMERCE == <<"E", "C", "O", "M", "M", "E", "R", "C", "E">>
N_out == <<"o", "u", "t">>

V_POSTPAID == <<"P", "O", "S", "T", "P", "A", "I", "D">>
V_PREPAID == <<"P", "R", "E", "P", "A", "I", "D">>
V_DATA == <<"D", "A", "T", "A">>
DIR_group_usage == <<"g", "r", "o", "u", "p", "_", "u", "s", "a", "g", "e">>
DIR_single_usage == <<"s", "i", "n", "g", "l", "e", "_", "u", "s", "a", "g", "e">>
DIR_OTHER == <<"O", "T", "H", "E", "R">>

\* cfg["outputDirs"], as DEFAULT_CONFIG gives it.
outputDirs ==
    << <<N_CRM, <<N_out, Lower(N_CRM)>> >>,
       <<N_BILLING, <<N_out, Lower(N_BILLING)>> >>,
       <<N_LMS, <<N_out, Lower(N_LMS)>> >>,
       <<N_RA, <<N_out, Lower(N_RA)>> >>,
       <<N_DWH, <<N_out, N_DWH>> >> >>

\* out_dirs.get(name, f"./out/{name.lower()}")
dest_dir(name) ==
    LET known == {i \in 1 .. Len(outputDirs) : outputDirs[i][1] = name}
    IN  IF known = {} THEN <<N_out, Lower(name)>>
        ELSE outputDirs[CHOOSE i \in known : TRUE][2]

\* The DWH directory of a record: base / category / rec_type.
dwh_dir(fields) ==
    dest_dir(N_DWH)
    \o <<IF FieldOrNone(fields, "EL_GROUP_USAGE") = PyInt(1)
         THEN DIR_group_usage ELSE DIR_single_usage,
         PyStr(Or(FieldOrNone(fields, "EL_REC_TYPE"), Str(DIR_OTHER)))>>

\* (el_fields.get("EL_REC_TYPE") or "").upper() == "ECOMMERCE"
is_ecommerce(fields) ==
    Upper(PyStr(Or(FieldOrNone(fields, "EL_REC_TYPE"), EMPTY))) = N_ECOMMERCE

RouteRunning == rule_idx < Len(routing_rules)

\* The rule the for loop of route_using_config is at.
CurrentRule == routing_rules[rule_idx + 1]

\* A rule whose conditions do not all hold is skipped.
RouteSkip ==
    /\ RouteRunning
    /\ ~rule_matches(CurrentRule, el_fields)
    /\ rule_idx' = rule_idx + 1
    /\ UNCHANGED <<routing_rules, el_fields, written, notRoute>>

\* A matching rule named DWH writes under category / record type.
RouteDWH ==
    /\ RouteRunning
    /\ rule_matches(CurrentRule, el_fields)
    /\ Upper(CurrentRule.name) = N_DWH
    /\ written' = Append(written, [name |-> CurrentRule.name,
                                   dir |-> dwh_dir(el_fields)])
    /\ rule_idx' = rule_idx + 1
    /\ UNCHANGED <<routing_rules, el_fields, notRoute>>

\* A matching rule named LMS is skipped for an ECOMMERCE record.
RouteLmsExcluded ==
    /\ RouteRunning
    /\ rule_matches(CurrentRule, el_fields)
    /\ Upper(CurrentRule.name) = N_LMS
    /\ is_ecommerce(el_fields)
    /\ rule_idx' = rule_idx + 1
    /\ UNCHANGED <<routing_rules, el_fields, written, notRoute>>

\* Only the first matching rule writes.
RouteWrite_Exclusive ==
    /\ RouteRunning
    /\ rule_matches(CurrentRule, el_fields)
    /\ Upper(CurrentRule.name) # N_DWH
    /\ ~(Upper(CurrentRule.name) = N_LMS /\ is_ecommerce(el_fields))
    /\ written' = Append(written, [name |-> CurrentRule.name,
                                   dir |-> dest_dir(CurrentRule.name)])
    /\ rule_idx' = Len(routing_rules)
    /\ UNCHANGED <<routing_rules, el_fields, notRoute>>

\* The LMS rule writes whatever the record type.
RouteWrite_NoExclusion ==
    /\ RouteRunning
    /\ rule_matches(CurrentRule, el_fields)
    /\ Upper(CurrentRule.name) # N_DWH
    /\ written' = Append(written, [name |-> CurrentRule.name,
                                   dir |-> dest_dir(CurrentRule.name)])
    /\ rule_idx' = rule_idx + 1
    /\ UNCHANGED <<routing_rules, el_fields, notRoute>>

\* Any other matching rule writes into its destination directory.
RouteWrite ==
    /\ RouteRunning
    /\ rule_matches(CurrentRule, el_fields)
    /\ Upper(CurrentRule.name) # N_DWH
    /\ ~(Upper(CurrentRule.name) = N_LMS /\ is_ecommerce(el_fields))
    /\ written' = Append(written, [name |-> CurrentRule.name,
                                   dir |-> dest_dir(CurrentRule.name)])
    /\ rule_idx' = rule_idx + 1
    /\ UNCHANGED <<routing_rules, el_fields, notRoute>>

(***************************************************************************)
(* The configurations and records tried.                                   *)
(***************************************************************************)
MaxRules == 3

Rule(name, conditions) == [name |-> name, conditions |-> conditions]

RulePool ==
    {Rule(N_CRM, << >>),
     Rule(N_BILLING, << <<"EL_PRE_POST", Str(V_POSTPAID)>>,
                        <<"EL_SUCCESS", PyInt(1)>> >>),
     Rule(N_LMS, << <<"EL_SUCCESS", PyInt(1)>>,
                    <<"EL_DEBIT_AMOUNT", Str(<<">", "0">>)>> >>),
     Rule(N_LMS, << >>),
     Rule(Lower(N_LMS), << <<"EL_REC_TYPE", Str(<<"=", "=">> \o N_ECOMMERCE)>> >>),
     Rule(N_RA, << <<"EL_BILLING", PyInt(1)>> >>),
     Rule(N_DWH, << >>)}

ElFieldSets ==
    {[EL_PRE_POST |-> Str(pp), EL_SUCCESS |-> PyInt(ok),
      EL_REC_TYPE |-> Str(rt), EL_DEBIT_AMOUNT |-> Flt(amt * Scale),
      EL_GROUP_USAGE |-> PyInt(gu)] :
        pp \in {V_POSTPAID, V_PREPAID}, ok \in {0, 1},
        rt \in {N_ECOMMERCE, V_DATA}, amt \in {0, 30}, gu \in {0, 1}}

RouteInit ==
    /\ \E n \in 0 .. MaxRules : routing_rules \in [1 .. n -> RulePool]
    /\ el_fields \in ElFieldSets
    /\ rule_idx = 0
    /\ written = << >>
    /\ OnlyRoute

RouteNext ==
    \/ RouteSkip
    \/ RouteDWH
    \/ RouteLmsExcluded
    \/ RouteWrite

SpecRoute == RouteInit /\ [][RouteNext]_vars

(***************************************************************************)
(* Claims about the router.                                                *)
(***************************************************************************)

\* The rules the loop has decided so far.
DecidedRules == SubSeq(routing_rules, 1, rule_idx)

\* The names of the rules among rs that satisfy pick, in rule order.
NamesWhere(rs, pick(_)) ==
    LET kept == SelectSeq(rs, LAMBDA r : pick(r)) IN [i \in 1 .. Len(kept) |-> kept[i].name]

WrittenNames == [i \in 1 .. Len(written) |-> written[i].name]

\* C12: a record whose EL_REC_TYPE is ECOMMERCE is never written to the
\* LMS destination (by a rule named LMS, or into the LMS directory),
\* whatever the rules and even when all conditions of the LMS rule hold.
C12_NoEcommerceInLms ==
    is_ecommerce(el_fields) =>
        \A i \in 1 .. Len(written) :
            /\ Upper(written[i].name) # N_LMS
            /\ written[i].dir # dest_dir(N_LMS)

\* Routing is over, the record is ECOMMERCE, an LMS rule had all its
\* conditions (two of them) hold, and other destinations were written.
C12_Witness ==
    /\ rule_idx = Len(routing_rules)
    /\ is_ecommerce(el_fields)
    /\ \E i \in 1 .. Len(routing_rules) :
          /\ routing_rules[i].name = N_LMS
          /\ Len(routing_rules[i].conditions) = 2
          /\ rule_matches(routing_rules[i], el_fields)
    /\ Len(written) = 2

\* C13 as stated: the record is written to exactly the destinations whose
\* rule conditions all hold, each rule decided on its own, a rule with no
\* conditions always among them.
C13_WritesEveryMatchingRule ==
    WrittenNames =
        NamesWhere(DecidedRules, LAMBDA r : rule_matches(r, el_fields))

\* C13 amended: the record is written to exactly the destinations whose
\* rule conditions all hold, each rule decided on its own (zero, one or
\* many destinations, a rule with no conditions always matching), except
\* that a rule named LMS does not write an ECOMMERCE record.
C13_WritesEveryMatchingRuleButLms ==
    WrittenNames =
        NamesWhere(DecidedRules,
                   LAMBDA r : /\ rule_matches(r, el_fields)
                              /\ ~(Upper(r.name) = N_LMS
                                   /\ is_ecommerce(el_fields)))

\* Routing is over with three rules decided: two wrote, one of them a rule
\* with no conditions, and one rule did not match.
C13_Witness ==
    /\ rule_idx = 3
    /\ Len(written) = 2
    /\ \E i \in 1 .. 3 :
          /\ routing_rules[i].conditions = << >>
          /\ \E j \in 1 .. 2 : written[j].name = routing_rules[i].name
    /\ \E i \in 1 .. 3 : ~rule_matches(routing_rules[i], el_fields)

(***************************************************************************)
(* The condition strings tried on their own: one rule with one condition   *)
(* `<op><value>`, every operator with a numeric and a non-numeric right-   *)
(* hand side, against numeric and non-numeric field values.                *)
(***************************************************************************)
ConditionValues == {<<"5">>, <<"3", "0">>, V_DATA}

ConditionTexts ==
    {ConditionOps[i] \o rhs : i \in 1 .. Len(ConditionOps), rhs \in ConditionValues}

ConditionRules ==
    {Rule(name, << <<key, Str(cond)>> >>) :
        name \in {N_CRM, N_DWH, N_LMS},
        key \in {"EL_REC_TYPE", "EL_DEBIT_AMOUNT"},
        cond \in ConditionTexts}

ConditionFieldSets ==
    {[EL_REC_TYPE |-> Str(rt), EL_DEBIT_AMOUNT |-> Flt(amt * Scale),
      EL_GROUP_USAGE |-> PyInt(gu)] :
        rt \in {N_ECOMMERCE, V_DATA, <<"5">>}, amt \in {0, 5, 30},
        gu \in {0, 1}}

ConditionInit ==
    /\ routing_rules \in {<<r>> : r \in ConditionRules}
    /\ el_fields \in ConditionFieldSets
    /\ rule_idx = 0
    /\ written = << >>
    /\ OnlyRoute

SpecCondition == ConditionInit /\ [][RouteNext]_vars

\* The condition of the single rule: its field value, operator and value.
TheCondition == routing_rules[1].conditions[1]

TheOp == FirstOp(Strip(TheCondition[2].s))

TheRhs ==
    Strip(SubSeq(Strip(TheCondition[2].s), Len(ConditionOps[TheOp]) + 1,
                 Len(Strip(TheCondition[2].s))))

\* C23: the comparison is numeric when both the field value and the
\* right-hand side are numbers; otherwise == and != compare the field's
\* text with the right-hand side and the four order operators are false.
C23_NumericThenText ==
    (rule_idx = 1 /\ Len(routing_rules) = 1
        /\ Len(routing_rules[1].conditions) = 1) =>
       LET stated(val, op, rhs, val_num, rhs_num) ==
               IF val_num.ok /\ rhs_num.ok
               THEN NumCompare(op, val_num.n, rhs_num.n)
               ELSE IF op = 6 THEN PyStr(val) = rhs
               ELSE IF op = 5 THEN PyStr(val) # rhs
               ELSE FALSE
           on(val) == stated(val, TheOp, TheRhs, ToFloat(val),
                             ParseDecimal(TheRhs))
       IN  rule_matches(routing_rules[1], el_fields)
              = on(el_fields[TheCondition[1]])

-----------------------------------------------------------------------------
(***************************************************************************)
(* Part V.  RFR/rfr.py: detect_cdr_type_from_generic and                   *)
(* apply_filtration_rules.                                                 *)
(*                                                                         *)
(* A genericRecord is [recordType, elems, msccs]: elems its recordElements *)
(* (strings as character sequences), msccs the mscc blocks of listOfMscc.  *)
(* An mscc is [volume, units, time, ratingGroup, chargingServiceName,      *)
(* blocks]; a block is [prop, under, value]: its recordProperty, whether   *)
(* it hangs under the chargingServiceInfo or directly under the            *)
(* subscriptionInfo, and the one element of it the rules read.             *)
(***************************************************************************)

\* The strings the rules compare with, and strings of the records tried.
T_PS == <<"P", "S">>
T_data == <<"d", "a", "t", "a">>
T_tp_base_data ==
    <<"t", "p", "_", "b", "a", "s", "e", "_", "d", "a", "t", "a">>
T_mms == <<"m", "m", "s">>
T_MMS == <<"M", "M", "S">>
T_VOICE == <<"V", "O", "I", "C", "E">>
T_speech == <<"s", "p", "e", "e", "c", "h">>
T_ussd == <<"u", "s", "s", "d">>
T_USSD == <<"U", "S", "S", "D">>
T_sms == <<"s", "m", "s">>
T_SMS == <<"S", "M", "S">>
T_ecommerce == <<"e", "c", "o", "m", "m", "e", "r", "c", "e">>
T_payment == <<"p", "a", "y", "m", "e", "n", "t">>
T_ecom == <<"e", "c", "o", "m">>
T_SECONDARY_BALANCE ==
    <<"S", "E", "C", "O", "N", "D", "A", "R", "Y", "_", "B", "A", "L", "A", "N", "C", "E">>
T_Data_svc == <<"D", "a", "t", "a", "@", "3", "g", "p", "p">>
T_Speech == <<"S", "p", "e", "e", "c", "h">>
T_Payment == <<"P", "a", "y", "m", "e", "n", "t">>

\* `sub in s` for strings.
Contains(s, sub) ==
    \E i \in 1 .. Len(s) - Len(sub) + 1 : SubSeq(s, i, i + Len(sub) - 1) = sub

\* (x or "") of a string element that may be absent.
TextOf(v) == IF v.t = "str" THEN v.s ELSE << >>

\* to_decimal of rfr.py, scaled by 10^5: 0 for None, "" and unparsable text.
rfr_to_decimal(v) ==
    LET value(p) == IF p.ok THEN p.n ELSE 0
    IN  IF v = NONE \/ v = EMPTY THEN 0 ELSE value(ParseDecimal(PyStr(v)))

RECURSIVE SumSeq(_)
SumSeq(s) == IF s = << >> THEN 0 ELSE Head(s) + SumSeq(Tail(s))

\* The blocks below all mscc blocks, in tree order.
AllBlocks(msccs) == Flatten([i \in 1 .. Len(msccs) |-> msccs[i].blocks])

\* has_block_anywhere(msccs, block_name)
has_block_anywhere(msccs, block_name) ==
    \E b \in Range(AllBlocks(msccs)) : b.prop = block_name

\* The sum of the values of the chargingServiceInfo blocks named in props.
CommittedTotal(blocks, props) ==
    SumSeq([i \in 1 .. Len(blocks) |->
               IF blocks[i].under = "chargingServiceInfo"
                  /\ blocks[i].prop \in props
               THEN rfr_to_decimal(blocks[i].value) ELSE 0])

\* extract_numeric_indicators(msccs)
extract_numeric_indicators(msccs) ==
    [totalVolumeConsumed |->
        SumSeq([i \in 1 .. Len(msccs) |-> rfr_to_decimal(msccs[i].volume)]),
     totalUnitsConsumed |->
        SumSeq([i \in 1 .. Len(msccs) |-> rfr_to_decimal(msccs[i].units)]),
     totalTimeConsumed |->
        SumSeq([i \in 1 .. Len(msccs) |-> rfr_to_decimal(msccs[i].time)]),
     bucketCommitedUnits |->
        CommittedTotal(AllBlocks(msccs), {"bucketInfo", "noCharge"}),
     accountBalanceCommitted |->
        CommittedTotal(AllBlocks(msccs), {"accountInfo"})]

\* The chargingServiceName detect_cdr_type_from_generic ends with: the
\* last one that is not empty, lower-cased.
RECURSIVE last_charging_name(_)
last_charging_name(msccs) ==
    IF msccs = << >> THEN << >>
    ELSE IF TextOf(msccs[Len(msccs)].chargingServiceName) # << >>
    THEN Lower(TextOf(msccs[Len(msccs)].chargingServiceName))
    ELSE last_charging_name(SubSeq(msccs, 1, Len(msccs) - 1))

\* detect_cdr_type_from_generic(generic)
detect_cdr_type_from_generic(g) ==
    LET detect(svc_id, evt, charging) ==
            IF \/ evt = T_PS
               \/ Contains(svc_id, T_data)
               \/ Truthy(g.elems.accessPointName)
               \/ PyStr(g.elems.rATType) \in {<<"6">>, <<"7">>, <<"8">>}
               \/ Contains(charging, T_tp_base_data)
            THEN "DATA"
            ELSE IF Contains(svc_id, T_mms) \/ evt = T_MMS
                    \/ Contains(charging, T_mms)
            THEN "MMS"
            ELSE IF evt = T_VOICE
                    \/ Lower(TextOf(g.elems.mediaName)) = T_speech
            THEN "VOICE"
            ELSE IF Contains(svc_id, T_ussd)
                    \/ Upper(TextOf(g.elems.subRecordEventType)) = T_USSD
                    \/ Contains(charging, T_ussd)
            THEN "USSD"
            ELSE IF Contains(svc_id, T_sms) \/ evt = T_SMS
                    \/ Contains(charging, T_sms)
            THEN "SMS"
            ELSE IF Contains(svc_id, T_ecommerce)
                    \/ Contains(charging, T_payment)
                    \/ Contains(charging, T_ecom)
            THEN "ECOMMERCE"
            ELSE "UNKNOWN"
    IN  detect(Lower(TextOf(g.elems.serviceContextId)),
               Upper(TextOf(g.elems.recordEventType)),
               last_charging_name(g.msccs))

\* The type-specific numeric filtration: the record is rejected.
no_usage(cdr_type, totals) ==
    CASE cdr_type = "DATA" ->
            /\ totals.totalVolumeConsumed = 0
            /\ totals.bucketCommitedUnits = 0
            /\ totals.accountBalanceCommitted = 0
      [] cdr_type = "VOICE" ->
            /\ totals.totalTimeConsumed = 0
            /\ totals.bucketCommitedUnits = 0
            /\ totals.accountBalanceCommitted = 0
      [] cdr_type \in {"SMS", "USSD", "MMS"} ->
            /\ totals.totalUnitsConsumed = 0
            /\ totals.bucketCommitedUnits = 0
            /\ totals.accountBalanceCommitted = 0
      [] OTHER -> FALSE

\* CONFIG: DATA_RG "100,200", VOICE_RG "", SMS_RG "".
rg_whitelist(cdr_type) ==
    IF cdr_type = "DATA" THEN {<<"1", "0", "0">>, <<"2", "0", "0">>} ELSE {}

\* The billing filtration: the record is rejected.
billing_rejects(g, cdr_type, strict_el) ==
    \/ /\ cdr_type \in {"DATA", "VOICE", "SMS", "USSD", "MMS"}
       /\ \E i \in 1 .. Len(g.msccs) :
             /\ Truthy(g.msccs[i].ratingGroup)
             /\ PyStr(g.msccs[i].ratingGroup) \in rg_whitelist(cdr_type)
    \/ IF strict_el
       THEN \/ g.elems.EL_SUCCESS # PyInt(1)
            \/ Upper(PyStr(g.elems.EL_PRE_POST)) # V_POSTPAID
       ELSE /\ Truthy(g.elems.EL_SUCCESS)
            /\ Truthy(g.elems.EL_PRE_POST)
            /\ \/ PyStr(g.elems.EL_SUCCESS) # <<"1">>
               \/ Upper(PyStr(g.elems.EL_PRE_POST)) # V_POSTPAID
    \/ \E b \in Range(AllBlocks(g.msccs)) :
          /\ b.under = "subscriptionInfo"
          /\ b.prop = "additionalBalanceInfo"
          /\ Truthy(b.value)
          /\ Upper(PyStr(b.value)) = T_SECONDARY_BALANCE

UsageBlocks ==
    {"accountInfo", "bucketInfo", "additionalBalanceInfo", "groupInfo",
     "groupState"}

\* apply_filtration_rules(record_name, generic, strict_el, ..., billing):
\* the verdict.
apply_filtration_rules(g, strict_el, billing) ==
    LET decide(cdr_type) ==
            IF no_usage(cdr_type, extract_numeric_indicators(g.msccs))
            THEN FALSE
            ELSE IF billing THEN ~billing_rejects(g, cdr_type, strict_el)
            ELSE TRUE
    IN  IF g.recordType # "OCSChargingRecord" THEN FALSE
        ELSE IF g.msccs = << >> THEN FALSE
        ELSE IF \A name \in UsageBlocks : ~has_block_anywhere(g.msccs, name)
        THEN FALSE
        ELSE decide(detect_cdr_type_from_generic(g))

\* process_file of rfr.py filtering one genericRecord of the file.
FilterRecord ==
    /\ ~fil_done
    /\ keep' = apply_filtration_rules(generic, fil_args.strict_el,
                                      fil_args.billing)
    /\ fil_done' = TRUE
    /\ UNCHANGED <<generic, fil_args, notFilter>>

(***************************************************************************)
(* The records tried.                                                      *)
(***************************************************************************)
MaxMscc == 2

Elems(svc, evt, rat, media, subevt, success, prepost) ==
    [serviceContextId |-> svc, recordEventType |-> evt,
     accessPointName |-> NONE, rATType |-> rat, mediaName |-> media,
     subRecordEventType |-> subevt, EL_SUCCESS |-> success,
     EL_PRE_POST |-> prepost]

\* recordElements that make the record of each type, and of none.
TypeElems ==
    {Elems(Str(T_Data_svc), NONE, NONE, NONE, NONE, NONE, NONE),
     Elems(NONE, Str(T_PS), Str(<<"6">>), NONE, NONE, PyInt(1), Str(V_POSTPAID)),
     Elems(NONE, Str(T_MMS), NONE, NONE, NONE, NONE, NONE),
     Elems(NONE, Str(T_VOICE), NONE, NONE, NONE, Str(<<"1">>), Str(Lower(V_POSTPAID))),
     Elems(NONE, NONE, NONE, Str(T_Speech), NONE, NONE, NONE),
     Elems(NONE, NONE, NONE, NONE, Str(Lower(T_USSD)), PyInt(1), Str(V_PREPAID)),
     Elems(NONE, Str(T_SMS), NONE, NONE, NONE, NONE, NONE),
     Elems(Str(T_ecommerce), NONE, NONE, NONE, NONE, NONE, NONE),
     Elems(NONE, NONE, NONE, NONE, NONE, NONE, NONE)}

Block(prop, under, value) == [prop |-> prop, under |-> under, value |-> value]

Mscc(volume, units, time, rg, name, blocks) ==
    [volume |-> volume, units |-> units, time |-> time, ratingGroup |-> rg,
     chargingServiceName |-> name, blocks |-> blocks]

MsccPool ==
    {Mscc(NONE, NONE, NONE, NONE, NONE, << >>),
     Mscc(A0, A0, A0, NONE, NONE,
          <<Block("accountInfo", "chargingServiceInfo", A0)>>),
     Mscc(NONE, NONE, NONE, Str(<<"1", "0", "0">>), NONE,
          <<Block("bucketInfo", "chargingServiceInfo", NONE)>>),
     Mscc(A50, NONE, NONE, Str(<<"3", "0", "0">>), NONE,
          <<Block("accountInfo", "chargingServiceInfo", A0)>>),
     Mscc(NONE, A3, NONE, NONE, NONE,
          <<Block("bucketInfo", "chargingServiceInfo", A0)>>),
     Mscc(NONE, NONE, A7, NONE, NONE,
          <<Block("groupInfo", "subscriptionInfo", NONE)>>),
     Mscc(A0, NONE, NONE, NONE, NONE,
          <<Block("accountInfo", "chargingServiceInfo", A12_5)>>),
     Mscc(NONE, A0, NONE, NONE, NONE,
          <<Block("bucketInfo", "chargingServiceInfo", A9),
            Block("noCharge", "chargingServiceInfo", A0)>>),
     Mscc(A0, A0, A0, NONE, Str(T_Payment),
          <<Block("accountInfo", "chargingServiceInfo", NONE),
            Block("additionalBalanceInfo", "subscriptionInfo",
                  Str(Lower(T_SECONDARY_BALANCE)))>>),
     Mscc(A20, A20, A20, NONE, NONE,
          <<Block("additionalBalanceInfo", "subscriptionInfo", NONE)>>)}

FilterInit ==
    /\ \E n \in 0 .. MaxMscc : \E msccs \in [1 .. n -> MsccPool] :
          \E elems \in TypeElems :
             \E rtype \in {"OCSChargingRecord", "OCSEventRecord"} :
                generic = [recordType |-> rtype, elems |-> elems,
                           msccs |-> msccs]
    /\ fil_args \in {[billing |-> FALSE, strict_el |-> FALSE],
                     [billing |-> TRUE, strict_el |-> FALSE],
                     [billing |-> TRUE, strict_el |-> TRUE]}
    /\ fil_done = FALSE
    /\ keep = FALSE
    /\ OnlyFilter

FilterNext == FilterRecord

SpecFilter == FilterInit /\ [][FilterNext]_vars

(***************************************************************************)
(* Claims about the filtration gate.                                       *)
(***************************************************************************)

\* A usage counter that is absent, empty or zero.
ZeroCounter(v) == v = NONE \/ v = EMPTY \/ ParseDecimal(PyStr(v)).n = 0

\* Every usage counter of the record is zero: consumed volume, units and
\* time of every mscc, and every committed amount below it.
AllCountersZero ==
    /\ \A i \in 1 .. Len(generic.msccs) :
          /\ ZeroCounter(generic.msccs[i].volume)
          /\ ZeroCounter(generic.msccs[i].units)
          /\ ZeroCounter(generic.msccs[i].time)
    /\ \A b \in Range(AllBlocks(generic.msccs)) :
          b.prop \in {"accountInfo", "bucketInfo", "noCharge"} =>
              ZeroCounter(b.value)

\* C14: filtration rejects every record whose outer type tag is not
\* OCSChargingRecord, every record with no usage-bearing sub-block, and
\* every record whose usage counters are all zero, whatever its category.
C14_FiltrationRejects ==
    fil_done =>
        /\ generic.recordType # "OCSChargingRecord" => ~keep
        /\ (\A b \in Range(AllBlocks(generic.msccs)) :
               b.prop \notin UsageBlocks) => ~keep
        /\ AllCountersZero => ~keep

\* str(ratingGroup) of the msccs that carry a rating group
RatingGroups ==
    {PyStr(generic.msccs[i].ratingGroup) :
        i \in {j \in 1 .. Len(generic.msccs) :
                  Truthy(generic.msccs[j].ratingGroup)}}

\* EL_SUCCESS / EL_PRE_POST do not say "successful, postpaid"
PaymentMismatch ==
    IF fil_args.strict_el
    THEN \/ generic.elems.EL_SUCCESS # PyInt(1)
         \/ Upper(PyStr(generic.elems.EL_PRE_POST)) # V_POSTPAID
    ELSE /\ Truthy(generic.elems.EL_SUCCESS)
         /\ Truthy(generic.elems.EL_PRE_POST)
         /\ \/ PyStr(generic.elems.EL_SUCCESS) # <<"1">>
            \/ Upper(PyStr(generic.elems.EL_PRE_POST)) # V_POSTPAID

SecondaryBalanceMarker ==
    \E b \in Range(AllBlocks(generic.msccs)) :
       /\ b.under = "subscriptionInfo"
       /\ b.prop = "additionalBalanceInfo"
       /\ Truthy(b.value)
       /\ Upper(PyStr(b.value)) = T_SECONDARY_BALANCE

\* C25: for a record that passes the basic checks, billing mode rejects
\* exactly when a rating group of the record is not in the list of its
\* category, or success / payment type mismatch, or an
\* additionalBalanceInfo carries the usage marker SECONDARY_BALANCE; with
\* the mode off the record is kept.
C25_BillingAllowList ==
    (fil_done /\ apply_filtration_rules(generic, fil_args.strict_el, FALSE)) =>
       LET not_allowed(cdr_type) ==
               /\ cdr_type \in {"DATA", "VOICE", "SMS", "USSD", "MMS"}
               /\ \E r \in RatingGroups : r \notin rg_whitelist(cdr_type)
       IN  IF fil_args.billing
           THEN keep = ~(\/ not_allowed(detect_cdr_type_from_generic(generic))
                         \/ PaymentMismatch
                         \/ SecondaryBalanceMarker)
           ELSE keep

-----------------------------------------------------------------------------
(***************************************************************************)
(* Part VI.  decoder.py: flatten_and_collapse.                             *)
(*                                                                         *)
(* A decoded value is a scalar [t |-> "scalar", v], a dict                 *)
(* [t |-> "dict", m] with m a function from keys to values, or a list      *)
(* [t |-> "list", s] with s a sequence of values (a tuple of the decoder   *)
(* is a list here).  Two dicts are equal when they hold the same values    *)
(* under the same keys, as in Python.                                      *)
(***************************************************************************)

Scalar(v) == [t |-> "scalar", v |-> v]
DictVal(m) == [t |-> "dict", m |-> m]
ListVal(s) == [t |-> "list", s |-> s]

\* {}
NoItems == [k \in {} |-> k]

\* {k: v}
OneItem(k, v) == [key \in {k} |-> v]

\* _is_var_pair(d)
is_var_pair(d) == d.t = "dict" /\ DOMAIN d.m = {"varName", "varValue"}

\* _flatten_var_pair(d): {str(d["varName"]): d["varValue"]}
flatten_var_pair(d) == DictVal(OneItem(d.m["varName"].v, d.m["varValue"]))

\* One step of the merge loop of _collapse_single_key_dicts: the single
\* item (k, v) of the next element joins `merged`.
MergeItem(merged, k, v) ==
    IF k \in DOMAIN merged
    THEN [merged EXCEPT ![k] = IF @.t = "list" THEN ListVal(Append(@.s, v))
                               ELSE ListVal(<<@, v>>)]
    ELSE [key \in DOMAIN merged \cup {k} |->
             IF key = k THEN v ELSE merged[key]]

\* The merge loop over the first n elements of a list of single-key dicts.
RECURSIVE MergeSingles(_, _)
MergeSingles(s, n) ==
    IF n = 0 THEN NoItems
    ELSE LET only(m) == CHOOSE k \in DOMAIN m : TRUE
             item(merged, m) == MergeItem(merged, only(m), m[only(m)])
         IN  item(MergeSingles(s, n - 1), s[n].m)

\* _collapse_single_key_dicts(lst)
collapse_single_key_dicts(lst) ==
    IF lst.t # "list" \/ lst.s = << >> THEN lst
    ELSE IF \E i \in 1 .. Len(lst.s) :
               lst.s[i].t # "dict" \/ Cardinality(DOMAIN lst.s[i].m) # 1
    THEN lst
    ELSE DictVal(MergeSingles(lst.s, Len(lst.s)))

\* _untag_known_pairs(obj): the keys and scalars of a decoded value are
\* strings.
untag_known_pairs(obj) ==
    IF obj.t = "list" /\ Len(obj.s) = 2 /\ obj.s[1].t = "scalar"
       /\ obj.s[2].t = "dict"
    THEN obj.s[2] ELSE obj

\* The keys of the decoder's vocabulary that end with "Elements".
ElementsKeys == {"recordElements"}

\* flatten_and_collapse(obj)
RECURSIVE flatten_and_collapse(_)
flatten_and_collapse(obj) ==
    LET special(key, v) ==
            IF key \in ElementsKeys THEN collapse_single_key_dicts(v) ELSE v
        recurse(o) ==
            IF is_var_pair(o) THEN flatten_var_pair(o)
            ELSE IF o.t = "dict"
            THEN DictVal([k \in DOMAIN o.m |->
                             special(k, flatten_and_collapse(o.m[k]))])
            ELSE IF o.t = "list"
            THEN collapse_single_key_dicts(
                     ListVal([i \in 1 .. Len(o.s) |->
                                 flatten_and_collapse(o.s[i])]))
            ELSE o
    IN  recurse(untag_known_pairs(obj))

\* main(): the flattened output of the decoded records.
Normalize ==
    /\ passes = 0
    /\ flattened' = flatten_and_collapse(decoded)
    /\ passes' = 1
    /\ UNCHANGED <<decoded, reflattened, notNorm>>

\* The normalization pass run on its own output.
Renormalize ==
    /\ passes = 1
    /\ reflattened' = flatten_and_collapse(flattened)
    /\ passes' = 2
    /\ UNCHANGED <<decoded, flattened, notNorm>>

(***************************************************************************)
(* The decoded values tried: scalars, {varName, varValue} pairs, single-   *)
(* key dicts, lists of them, tagged pairs and recordElements containers,   *)
(* nested up to three deep.                                                *)
(***************************************************************************)
VarPair(name, v) ==
    DictVal([k \in {"varName", "varValue"} |->
                IF k = "varName" THEN Scalar(name) ELSE v])

Single(k, v) == DictVal(OneItem(k, v))

PoolKeys == {"a", "b"}

Scalars == {Scalar("1"), Scalar("2")}

Pairs(vs) == {VarPair(k, v) : k \in PoolKeys, v \in vs}

Singles(vs) == {Single(k, v) : k \in PoolKeys, v \in vs}

ListsOf(vs) ==
    {ListVal(<<v>>) : v \in vs} \cup {ListVal(<<v, w>>) : v \in vs, w \in vs}

Flat == Pairs(Scalars) \cup Singles(Scalars)

Nested == Pairs(Flat) \cup Singles(Flat)

DecodedValues ==
    Scalars \cup Flat \cup Nested
    \cup ListsOf(Scalars \cup Flat)
    \cup ListsOf(Singles(Singles(Scalars)))
    \cup {ListVal(<<Scalar("genericRecord"), d>>) : d \in Flat \cup Nested}
    \cup {ListVal(<<Scalar("a"), l>>) : l \in ListsOf(Pairs(Scalars))}
    \cup {Single("recordElements", l) : l \in ListsOf(Flat)}
    \cup {Single("a", l) : l \in ListsOf(Flat)}

NormInit ==
    /\ decoded \in DecodedValues
    /\ passes = 0
    /\ flattened = << >>
    /\ reflattened = << >>
    /\ OnlyNorm

NormNext ==
    \/ Normalize
    \/ Renormalize

SpecNorm == NormInit /\ [][NormNext]_vars

(***************************************************************************)
(* Claims about the normalization pass.                                    *)
(***************************************************************************)

\* C15: normalization is idempotent: normalizing an already normalized
\* value gives that value again.
C15_Idempotent ==
    passes = 2 => reflattened = flattened

(***************************************************************************)
(* PART VII.  Property lookup of the business-logic node                   *)
(* (src/COMMAN BLN/cbl.py, find_nodes_by_property).                        *)
(*                                                                         *)
(* A parsed JSON value is a scalar, a list, or an object.  An object keeps *)
(* its keys in insertion order (that is the order .items() visits), so it  *)
(* is a sequence of <<key, value>> pairs.                                  *)
(***************************************************************************)
Obj(items) == [t |-> "obj", items |-> items]

HasItem(o, k) == \E i \in 1 .. Len(o.items) : o.items[i][1] = k

\* dict.get(k): None when the key is absent
ObjGet(o, k) == IF HasItem(o, k) THEN Get(o.items, k) ELSE NONE

\* The variant that stops at the first item of a list that has a match.
RECURSIVE find_nodes_first_sibling(_, _)
find_nodes_first_sibling(c, prop) ==
    IF c.t = "obj"
    THEN LET own == IF ObjGet(c, "recordProperty") = Scalar(prop)
                    THEN <<c>> ELSE << >>
             sub(v) == IF v.t \in {"list", "obj"}
                       THEN find_nodes_first_sibling(v, prop) ELSE << >>
         IN  own \o Flatten([i \in 1 .. Len(c.items) |-> sub(c.items[i][2])])
    ELSE IF c.t = "list"
    THEN LET per == [i \in 1 .. Len(c.s) |->
                        find_nodes_first_sibling(c.s[i], prop)]
             hits == {i \in 1 .. Len(c.s) : per[i] # << >>}
         IN  IF hits = {} THEN << >>
             ELSE per[CHOOSE i \in hits : \A j \in hits : i <= j]
    ELSE << >>

\* find_nodes_by_property(container, prop_name): the object itself when its
\* recordProperty is prop_name, then the matches inside each of its list or
\* object values in key order; for a list, the matches of each item in turn.
RECURSIVE find_nodes_by_property(_, _)
find_nodes_by_property(c, prop) ==
    IF c.t = "obj"
    THEN LET own == IF ObjGet(c, "recordProperty") = Scalar(prop)
                    THEN <<c>> ELSE << >>
             sub(v) == IF v.t \in {"list", "obj"}
                       THEN find_nodes_by_property(v, prop) ELSE << >>
         IN  own \o Flatten([i \in 1 .. Len(c.items) |-> sub(c.items[i][2])])
    ELSE IF c.t = "list"
    THEN Flatten([i \in 1 .. Len(c.s) |->
                     find_nodes_by_property(c.s[i], prop)])
    ELSE << >>

\* One lookup over the record tree (the callers at lines 150-160 and 308
\* pass the generic record and a property name).
FindNodes ==
    /\ ~looked
    /\ container # << >>
    /\ looked' = TRUE
    /\ found_nodes' = find_nodes_by_property(container, prop_name)
    /\ UNCHANGED <<container, prop_name, notFind>>

\* A later lookup of another property over the same tree.
FindAgain ==
    /\ looked
    /\ \E p \in {"mscc", "subscriptionInfo", "groupInfo"} :
          /\ p # prop_name
          /\ prop_name' = p
          /\ found_nodes' = find_nodes_by_property(container, p)
    /\ UNCHANGED <<container, looked, notFind>>

(***************************************************************************)
(* The record trees tried.  A tree has up to MaxNodes nodes numbered in    *)
(* depth-first pre-order: the parent of node i is node i - 1 or one of its *)
(* ancestors.  Every node is an object with a recordProperty, its number   *)
(* (recordId, a scalar attribute that tells equal-looking nodes apart),    *)
(* a list of scalar elements, and its children: in the list                *)
(* recordSubExtensions, or, when it has a single child and the tree is     *)
(* built "direct", as the object value of recordExtension.                 *)
(***************************************************************************)
MaxNodes == 4

PropertyNames == {"mscc", "subscriptionInfo"}

RECURSIVE AncestorsOrSelf(_, _)
AncestorsOrSelf(parent, i) ==
    IF i = 0 THEN {} ELSE {i} \cup AncestorsOrSelf(parent, parent[i])

\* parent[1] = 0 marks the root
PreOrderShapes(n) ==
    {parent \in [1 .. n -> 0 .. n - 1] :
        /\ parent[1] = 0
        /\ \A i \in 2 .. n : parent[i] \in AncestorsOrSelf(parent, i - 1)}

ChildrenOf(parent, i) ==
    LET n == Len(parent)
        kids == {j \in 1 .. n : parent[j] = i}
        RECURSIVE sorted(_, _)
        sorted(from, left) ==
            IF left = {} THEN << >>
            ELSE IF from \in left
                 THEN <<from>> \o sorted(from + 1, left \ {from})
                 ELSE sorted(from + 1, left)
    IN  sorted(1, kids)

RECURSIVE TreeNode(_, _, _, _)
TreeNode(parent, tags, direct, i) ==
    LET kids == ChildrenOf(parent, i)
        built == [k \in 1 .. Len(kids) |->
                     TreeNode(parent, tags, direct, kids[k])]
        head == << <<"recordProperty", Scalar(tags[i])>>,
                   <<"recordId", Scalar(i)>>,
                   <<"recordElements", ListVal(<<Scalar("x")>>)>> >>
    IN  Obj(IF direct /\ Len(kids) = 1
            THEN head \o << <<"recordExtension", built[1]>> >>
            ELSE head \o << <<"recordSubExtensions", ListVal(built)>> >>)

RecordTrees ==
    UNION {{TreeNode(parent, tags, direct, 1) :
               parent \in PreOrderShapes(n),
               tags \in [1 .. n -> PropertyNames],
               direct \in BOOLEAN} : n \in 1 .. MaxNodes}

FindInit ==
    /\ container \in RecordTrees
    /\ prop_name \in PropertyNames \cup {"groupInfo"}
    /\ looked = FALSE
    /\ found_nodes = << >>
    /\ OnlyFind

FindNext ==
    \/ FindNodes
    \/ FindAgain

SpecFind == FindInit /\ [][FindNext]_vars

(***************************************************************************)
(* Claims about the property lookup.                                       *)
(***************************************************************************)

\* Every object of a value, at any depth.
RECURSIVE ObjectsIn(_)
ObjectsIn(v) ==
    IF v.t = "obj"
    THEN {v} \cup UNION {ObjectsIn(v.items[i][2]) : i \in 1 .. Len(v.items)}
    ELSE IF v.t = "list"
    THEN UNION {ObjectsIn(v.s[i]) : i \in 1 .. Len(v.s)}
    ELSE {}

Matching ==
    {o \in ObjectsIn(container) :
        ObjGet(o, "recordProperty") = Scalar(prop_name)}

PreOrderNumber(o) == ObjGet(o, "recordId").v

\* C16: the lookup returns every node of the tree whose recordProperty is
\* the name looked up, siblings that share it included, each exactly once
\* and in depth-first traversal order.
C16_AllMatchesInOrder ==
    looked =>
        /\ Range(found_nodes) = Matching
        /\ Len(found_nodes) = Cardinality(Matching)
        /\ \A i \in 1 .. Len(found_nodes) - 1 :
              PreOrderNumber(found_nodes[i]) < PreOrderNumber(found_nodes[i + 1])

\* Two siblings share the name looked up, one of them has a matching
\* descendant, and the lookup has returned.
C16_Witness ==
    /\ looked
    /\ Len(found_nodes) >= 3
    /\ \E o \in ObjectsIn(container) :
          /\ HasItem(o, "recordSubExtensions")
          /\ LET kids == ObjGet(o, "recordSubExtensions").s
             IN  \E i, j \in 1 .. Len(kids) :
                    /\ i < j
                    /\ kids[i] \in Matching
                    /\ kids[j] \in Matching
                    /\ \E d \in ObjectsIn(kids[i]) \ {kids[i]} : d \in Matching

(***************************************************************************)
(* PART VIII.  The duplicate checker's key store                           *)
(* (src/record_duplicate_checker_node/record_duplicate_checker.py).        *)
(*                                                                         *)
(* process_file hands every record of a file to a pool thread; each thread *)
(* runs process_record.  The key store is one SQLite connection opened     *)
(* with isolation_level=None: every INSERT is committed as it executes,    *)
(* and the commit() and rollback() calls find no open transaction.         *)
(* db is the set of composite keys in the table, db_lock the thread that   *)
(* holds _db_lock (0 when free), thread[t] the position of pool thread t.  *)
(***************************************************************************)
EnableRecDuplicateCheck == TRUE

db_retry_max == 5

MaxThreads == 2

Threads == 1 .. MaxThreads

\* A thread about to call process_record.  stored is history: the keys
\* this thread's INSERTs have put into the table.
Submitted ==
    [pc |-> "start", key |-> 0, attempt |-> 0, outcome |-> "none",
     integrity_error |-> FALSE, stored |-> {}, after |-> "none"]

Returned(t, outcome) ==
    [thread EXCEPT ![t].pc = "done", ![t].key = 0, ![t].attempt = 0,
                   ![t].outcome = outcome, ![t].after = "none"]

\* The exception leaves the with block, which releases _db_lock; the
\* except clause then calls _db_conn.rollback().
Raised(t, after) ==
    [thread EXCEPT ![t].pc = "rollback", ![t].key = 0, ![t].after = after,
                   ![t].integrity_error = (@ \/ after = "duplicate")]

\* if not composite_keys: ... return "failed"
RecordWithoutKeys(t) ==
    /\ thread[t].pc = "start"
    /\ rec_keys[t] = << >>
    /\ thread' = Returned(t, "failed")
    /\ UNCHANGED <<rec_keys, db, db_lock, purged, notDedup>>

\* with _db_lock: (one attempt of the retry loop begins)
AcquireLock(t) ==
    /\ EnableRecDuplicateCheck
    /\ thread[t].pc = "start"
    /\ rec_keys[t] # << >>
    /\ db_lock = 0
    /\ db_lock' = t
    /\ thread' = [thread EXCEPT ![t].pc = "insert", ![t].key = 1]
    /\ UNCHANGED <<rec_keys, db, purged, notDedup>>

Inserting(t) ==
    /\ thread[t].pc = "insert"
    /\ db_lock = t
    /\ thread[t].key <= Len(rec_keys[t])

Stored(t, k) ==
    [thread EXCEPT ![t].key = @ + 1, ![t].stored = @ \cup {k}]

\* The variant whose INSERT overwrites a key that is already stored.
InsertKey_Overwrite(t) ==
    /\ Inserting(t)
    /\ db' = db \cup {rec_keys[t][thread[t].key]}
    /\ thread' = Stored(t, rec_keys[t][thread[t].key])
    /\ UNCHANGED <<rec_keys, db_lock, purged, notDedup>>

\* cur.execute("INSERT ..."): the key is stored (and, the connection being
\* in autocommit mode, committed), or the primary key refuses it and
\* sqlite3.IntegrityError is raised.
InsertKey(t) ==
    /\ Inserting(t)
    /\ IF rec_keys[t][thread[t].key] \in db
       THEN /\ thread' = Raised(t, "duplicate")
            /\ db_lock' = 0
            /\ UNCHANGED db
       ELSE /\ db' = db \cup {rec_keys[t][thread[t].key]}
            /\ thread' = Stored(t, rec_keys[t][thread[t].key])
            /\ UNCHANGED db_lock
    /\ UNCHANGED <<rec_keys, purged, notDedup>>

\* sqlite3.OperationalError "database is locked" on an INSERT.
DatabaseLocked(t) ==
    /\ Inserting(t)
    /\ db_lock' = 0
    /\ thread' = Raised(t, "retry")
    /\ UNCHANGED <<rec_keys, db, purged, notDedup>>

\* Any other sqlite3.OperationalError.
DatabaseError(t) ==
    /\ Inserting(t)
    /\ db_lock' = 0
    /\ thread' = Raised(t, "failed")
    /\ UNCHANGED <<rec_keys, db, purged, notDedup>>

\* The except clauses: _db_conn.rollback() finds no open transaction and
\* undoes nothing.  After IntegrityError the record is written to rejected
\* and returns "duplicate"; after "database is locked" the attempt is
\* counted and the loop tries again, and after db_retry_max attempts, or
\* after any other OperationalError, the record is written to failed.
Rollback(t) ==
    /\ thread[t].pc = "rollback"
    /\ thread' =
          CASE thread[t].after = "duplicate" -> Returned(t, "duplicate")
            [] thread[t].after = "retry"
               /\ thread[t].attempt + 1 < db_retry_max ->
                  [thread EXCEPT ![t].pc = "start", ![t].after = "none",
                                 ![t].attempt = @ + 1]
            [] OTHER -> Returned(t, "failed")
    /\ UNCHANGED <<rec_keys, db, db_lock, purged, notDedup>>

\* _db_conn.commit(); success = True; break; ... return "accepted"
CommitKeys(t) ==
    /\ thread[t].pc = "insert"
    /\ db_lock = t
    /\ thread[t].key > Len(rec_keys[t])
    /\ db_lock' = 0
    /\ thread' = Returned(t, "accepted")
    /\ UNCHANGED <<rec_keys, db, purged, notDedup>>

\* cleanup_old_keys, run by the cleanup thread: under the lock, the rows
\* older than the retention cutoff are deleted.
CleanupOldKeys ==
    /\ db_lock = 0
    /\ \E old \in SUBSET db :
          /\ db' = db \ old
          /\ purged' = (purged \/ old # {})
    /\ UNCHANGED <<rec_keys, db_lock, thread, notDedup>>

(***************************************************************************)
(* The records tried: MaxThreads records of one file, each with no key     *)
(* (session or sequence number missing), one key, or two keys (two rating  *)
(* groups), over two composite keys; the table starts empty or holds keys  *)
(* of earlier files.                                                       *)
(***************************************************************************)
CompositeKeys == {"s1|1|10", "s1|1|20"}

KeyLists ==
    {<< >>} \cup {<<k>> : k \in CompositeKeys}
    \cup {kl \in CompositeKeys \X CompositeKeys : kl[1] # kl[2]}

DedupInit ==
    /\ rec_keys \in [Threads -> KeyLists]
    /\ db \in SUBSET CompositeKeys
    /\ db_lock = 0
    /\ thread = [t \in Threads |-> Submitted]
    /\ purged = FALSE
    /\ OnlyDedup

DedupNext ==
    \/ \E t \in Threads :
          \/ RecordWithoutKeys(t)
          \/ AcquireLock(t)
          \/ InsertKey(t)
          \/ DatabaseLocked(t)
          \/ DatabaseError(t)
          \/ Rollback(t)
          \/ CommitKeys(t)
    \/ CleanupOldKeys

SpecDedup == DedupInit /\ [][DedupNext]_vars

(***************************************************************************)
(* Claims about the key store.                                             *)
(***************************************************************************)
KeysOf(t) == Range(rec_keys[t])

Accepted(t) == thread[t].outcome = "accepted"

UsesConnection(t) == thread[t].pc \in {"insert", "rollback"}

\* C26: every operation on the shared connection runs while its thread
\* holds _db_lock, so no two threads are at the connection at once.
C26_ConnectionUnderLock ==
    DedupIdle \/
       /\ \A t \in Threads : UsesConnection(t) => db_lock = t
       /\ \A a, b \in Threads :
             (UsesConnection(a) /\ UsesConnection(b)) => a = b

\* C27: while nothing is purged, a record that ended as duplicate or
\* failed has left none of its keys in the table.
C27_AllOrNothing ==
    (DedupIdle \/ purged) \/
       \A t \in Threads :
          (thread[t].pc = "done"
              /\ thread[t].outcome \in {"duplicate", "failed"})
             => thread[t].stored \cap db = {}


(***************************************************************************)
(* PART IX.  The file loops of the scripts that take files from an input   *)
(* directory:                                                              *)
(*   cbl    src/COMMAN BLN/cbl.py (main, process_file)                     *)
(*   rdc    src/record_duplicate_checker_node/record_duplicate_checker.py  *)
(*          (process_existing_files, the watchdog handler, process_file,   *)
(*          _signal_handler)                                               *)
(*   rfr    src/RFR/rfr.py (watch_directory, process_file, save_file)      *)
(*   voice  src/datawarehouse_mapper_node/                                 *)
(*          voice_usage_datawarehouse_mapper.py (main, process_input_file) *)
(*                                                                         *)
(* A worker is one running instance of the script; the workers share the   *)
(* input directory.  A file is outside (not written yet), in the input     *)
(* directory, or aside (processed, archive or failed directory).  A good   *)
(* file parses to a JSON object with records; a list file parses to a JSON *)
(* list of records; a malformed file is readable but is not JSON; an       *)
(* unreadable file cannot be opened.                                       *)
(*                                                                         *)
(* worker[w].pc:  "poll"     about to list the input directory             *)
(*                "files"    between two files of the listing (or, in the  *)
(*                           watch phase, between two created events)      *)
(*                "records"  the file is read, its records are in work     *)
(*                "move"     the records are done, the file is to be moved *)
(*                "exited"   the process (or its observer thread) ended    *)
(***************************************************************************)
MaxFiles == 2

MaxTries == 2

Workers == {1, 2}

InputFiles == 1 .. MaxFiles

Scripts == {"cbl", "rdc", "rfr", "voice"}

FileKinds == {"good", "list", "malformed", "unreadable"}

InInput == {f \in InputFiles : place[f] = "in"}

\* sorted(...) of a set of files
RECURSIVE SortedFrom(_, _)
SortedFrom(n, S) ==
    IF S = {} THEN << >>
    ELSE IF n \in S THEN <<n>> \o SortedFrom(n + 1, S \ {n})
    ELSE SortedFrom(n + 1, S)

\* glob() yields the files in the directory's order
Orderings(S) ==
    {s \in [1 .. Cardinality(S) -> S] :
        \A i, j \in 1 .. Cardinality(S) : i # j => s[i] # s[j]}

Listings(s) ==
    IF s = "rdc" THEN Orderings(InInput) ELSE {SortedFrom(1, InInput)}

Starting == [pc |-> "poll", file |-> 0, files |-> << >>, phase |-> "scan"]

Exited(w) ==
    [worker EXCEPT ![w] = [pc |-> "exited", file |-> 0, files |-> << >>,
                           phase |-> worker[w].phase]]

BetweenFiles(w, rest) ==
    [worker EXCEPT ![w].pc = "files", ![w].file = 0, ![w].files = rest]

\* The pass over the listing is left; the loop sleeps and lists again.
NextPoll(w) ==
    [worker EXCEPT ![w].pc = "poll", ![w].file = 0, ![w].files = << >>]

\* rdc and voice keep a watchdog observer once the existing files are done
Watches(s) == s \in {"rdc", "voice"}

\* A file is written into the input directory; the observers of the
\* watching workers queue its created event.  (For rfr the file counts from
\* the moment its modification time is a poll interval old.)
Arrive(f) ==
    /\ script # "none"
    /\ place[f] = "outside"
    /\ place' = [place EXCEPT ![f] = "in"]
    /\ worker' = [w \in Workers |->
                     IF Watches(script) /\ worker[w].phase = "watch"
                        /\ worker[w].pc # "exited"
                     THEN [worker[w] EXCEPT !.files = Append(@, f)]
                     ELSE worker[w]]
    /\ UNCHANGED <<script, file_kind, stop, tries, aborted, notLoop>>

\* The head of the loop: cbl leaves when STOP is set (while not STOP);
\* otherwise the directory is listed, and an empty listing sleeps.
Poll(w) ==
    /\ script # "none"
    /\ worker[w].pc = "poll"
    /\ IF script = "cbl" /\ w \in stop
       THEN worker' = Exited(w)
       ELSE /\ Watches(script) \/ InInput # {}
            /\ \E listing \in Listings(script) :
                  worker' = BetweenFiles(w, listing)
    /\ UNCHANGED <<script, file_kind, place, stop, tries, aborted, notLoop>>

\* What the attempt to read file f does, by script:
\*   "ok"     the file is parsed and its records are taken up
\*   "moved"  the failure is logged and the file is moved aside
\*   "left"   the failure is logged and the file stays where it is
\*   "pass"   an exception leaves the pass over the listing
\*   "crash"  an exception leaves the thread
ReadResult(s, f) ==
    IF place[f] = "in" /\ file_kind[f] = "good" THEN "ok"
    ELSE IF place[f] = "in" /\ file_kind[f] = "list"
    THEN \* rdc and voice take the list as the records; rfr finds no
         \* payload and rejects the file; in cbl data.get raises out of
         \* process_file and main logs the unhandled error
         (IF s = "cbl" THEN "left" ELSE IF s = "rfr" THEN "moved" ELSE "ok")
    ELSE IF s = "cbl" THEN (IF place[f] = "in" THEN "moved" ELSE "left")
    ELSE IF s = "rdc" THEN (IF place[f] = "in" THEN "moved" ELSE "crash")
    ELSE IF s = "rfr"
         THEN (IF place[f] = "in" /\ file_kind[f] = "malformed"
               THEN "moved" ELSE "pass")
    ELSE "left"

Attempted(w, f) == [tries EXCEPT ![w][f] = @ + 1]

\* process_file up to the point where the file is parsed or given up.
ReadFile(w, f, rest) ==
    LET after(result) ==
            /\ worker' = CASE result = "ok" ->
                                [worker EXCEPT ![w].pc = "records",
                                               ![w].file = f,
                                               ![w].files = rest]
                           [] result = "pass" -> NextPoll(w)
                           [] result = "crash" -> Exited(w)
                           [] OTHER -> BetweenFiles(w, rest)
            /\ place' = IF result = "moved"
                        THEN [place EXCEPT ![f] = "aside"]
                        ELSE place
    IN  /\ tries[w][f] < MaxTries
        /\ tries' = Attempted(w, f)
        /\ after(ReadResult(script, f))

\* One turn of the loop over the listing (or over the created events).
NextFile(w) ==
    /\ script # "none"
    /\ worker[w].pc = "files"
    /\ IF script = "rdc" /\ worker[w].phase = "watch" /\ w \in stop
       THEN \* observer.stop(); observer.join()
            /\ worker' = Exited(w)
            /\ UNCHANGED <<place, tries>>
       ELSE IF worker[w].files = << >>
       THEN /\ worker[w].phase = "scan"
            /\ worker' = IF Watches(script)
                         THEN [worker EXCEPT ![w].phase = "watch"]
                         ELSE NextPoll(w)
            /\ UNCHANGED <<place, tries>>
       ELSE IF script = "cbl" /\ w \in stop
       THEN \* if STOP: break
            /\ worker' = NextPoll(w)
            /\ UNCHANGED <<place, tries>>
       ELSE ReadFile(w, Head(worker[w].files), Tail(worker[w].files))
    /\ UNCHANGED <<script, file_kind, stop, aborted, notLoop>>

\* The records of the file are worked off and the outputs written.  rfr
\* copies the input file into the accepted or rejected directory per
\* record: with the file gone the copy raises and the pass is left.
Records(w) ==
    /\ script # "none"
    /\ worker[w].pc = "records"
    /\ worker' = IF script = "rfr" /\ place[worker[w].file] # "in"
                 THEN NextPoll(w)
                 ELSE [worker EXCEPT ![w].pc = "move"]
    /\ UNCHANGED <<script, file_kind, place, stop, tries, aborted, notLoop>>

\* The file is moved to the processed or archive directory.  When it is no
\* longer there the move fails: cbl, rfr and voice log that, rdc's rename
\* raises out of process_file.
MoveFile(w) ==
    /\ script # "none"
    /\ worker[w].pc = "move"
    /\ place' = [place EXCEPT ![worker[w].file] = "aside"]
    /\ worker' = IF script = "rdc" /\ place[worker[w].file] # "in"
                 THEN Exited(w)
                 ELSE BetweenFiles(w, worker[w].files)
    /\ UNCHANGED <<script, file_kind, stop, tries, aborted, notLoop>>

\* SIGINT or SIGTERM reaches a process that installed a handler.  cbl sets
\* STOP.  rdc sets _shutdown and calls sys.exit(0): SystemExit unwinds the
\* main thread.  While the main thread is inside process_existing_files the
\* executor still finishes the submitted records, but archive_file is never
\* reached; in the watch phase the finally clause joins the observer, which
\* finishes the event it is handling.
Signal(w) ==
    /\ script \in {"cbl", "rdc"}
    /\ w \notin stop
    /\ worker[w].pc # "exited"
    /\ stop' = stop \cup {w}
    /\ IF script = "rdc" /\ worker[w].phase = "scan"
       THEN /\ worker' = Exited(w)
            /\ aborted' = IF worker[w].pc \in {"records", "move"}
                          THEN aborted \cup {worker[w].file}
                          ELSE aborted
       ELSE UNCHANGED <<worker, aborted>>
    /\ UNCHANGED <<script, file_kind, place, tries, notLoop>>

LoopInit ==
    /\ script \in Scripts
    /\ file_kind \in [InputFiles -> FileKinds]
    /\ place \in [InputFiles -> {"outside", "in"}]
    /\ worker = [w \in Workers |-> Starting]
    /\ stop = {}
    /\ tries = [w \in Workers |-> [f \in InputFiles |-> 0]]
    /\ aborted = {}
    /\ OnlyLoop

LoopNext ==
    \/ \E f \in InputFiles : Arrive(f)
    \/ \E w \in Workers :
          \/ Poll(w)
          \/ NextFile(w)
          \/ Records(w)
          \/ MoveFile(w)
          \/ Signal(w)

SpecLoop == LoopInit /\ [][LoopNext]_vars

(***************************************************************************)
(* Claims about the file loops.                                            *)
(***************************************************************************)
Processing(w) == worker[w].pc \in {"records", "move"}

\* C28: in the cbl poll loop a file that a worker picked up and is done
\* with has left the input directory, whether process_file returned or
\* raised, and the worker has attempted it once only.
C28_OneAttemptPerFile ==
    script = "cbl" =>
    \A w \in Workers : \A f \in InputFiles :
       (tries[w][f] >= 1 /\ ~(Processing(w) /\ worker[w].file = f)) =>
          /\ place[f] = "aside"
          /\ tries[w][f] = 1

\* C18: in cbl, rdc and rfr a file is out of the input directory from the
\* moment a worker has claimed it, before its processing starts, so no two
\* workers process the same file.
C18_ClaimedBeforeProcessing ==
    script \in {"cbl", "rdc", "rfr"} =>
    \A w \in Workers :
       Processing(w) =>
          /\ place[worker[w].file] # "in"
          /\ \A v \in Workers \ {w} :
                Processing(v) => worker[v].file # worker[w].file

\* C19: after the stop signal the file in work runs to completion (its
\* records are done and it is moved or archived) and no further file is
\* started: a worker of cbl or rdc stopped by the signal leaves no file
\* behind mid-way.
C19_StopCompletesCurrentFile ==
    script \in {"cbl", "rdc"} =>
    \A w \in stop :
       worker[w].pc = "exited" =>
          \A f \in aborted : place[f] # "in"

\* C20: in cbl, voice and rfr a file that cannot be read or parsed is
\* moved out of the input directory by the attempt, and no worker's loop
\* attempts it a second time.
C20_BadFileQuarantined ==
    script \in {"cbl", "voice", "rfr"} =>
    \A w \in Workers : \A f \in InputFiles :
       (file_kind[f] \in {"malformed", "unreadable"} /\ tries[w][f] >= 1) =>
          /\ place[f] = "aside"
          /\ tries[w][f] = 1

-----------------------------------------------------------------------------
(***************************************************************************)
(* Part X.  process_file of rfr.py on a whole input file.  The file holds  *)
(* one genericRecord or a list of them; `copies` is the set of output      *)
(* directories that hold a copy of the file.                               *)
(***************************************************************************)

\* The most records a list file holds.
MaxGenerics == 2

\* save_file: shutil.copy of the whole input file into the accepted or the
\* rejected directory.
save_file(dirs, accepted) ==
    dirs \cup {IF accepted THEN "accepted" ELSE "rejected"}

\* The for loop of process_file: every record of the file is filtered
\* and the file is saved once per record, by that record's verdict.
RECURSIVE save_each(_, _, _)
save_each(generics, a, dirs) ==
    IF generics = << >> THEN dirs
    ELSE save_each(Tail(generics), a,
                   save_file(dirs, apply_filtration_rules(Head(generics),
                                                          a.strict_el, a.billing)))

\* process_file: a file that does not parse, or that has no
\* payload.genericRecord, is saved as rejected; any other file is saved
\* record by record.
ProcessFile ==
    /\ ~rfr_done
    /\ copies' = IF doc.kind \in {"malformed", "unrecognized"}
                  THEN save_file(copies, FALSE)
                  ELSE save_each(doc.generics, args, copies)
    /\ rfr_done' = TRUE
    /\ UNCHANGED <<doc, args, notCopy>>

\* The records of the files tried: data records with no mscc, with one
\* mscc that carries usage, and with one whose counters are all zero.
FileGenerics ==
    {[recordType |-> rtype,
      elems |-> Elems(Str(T_Data_svc), NONE, NONE, NONE, NONE, NONE, NONE),
      msccs |-> msccs] :
        rtype \in {"OCSChargingRecord", "OCSEventRecord"},
        msccs \in {<< >>,
                   <<Mscc(A50, NONE, NONE, Str(<<"3", "0", "0">>), NONE,
                          <<Block("accountInfo", "chargingServiceInfo", A0)>>)>>,
                   <<Mscc(A0, A0, A0, NONE, NONE,
                          <<Block("accountInfo", "chargingServiceInfo", A0)>>)>>}}

Docs ==
    {[kind |-> k, generics |-> << >>] : k \in {"malformed", "unrecognized"}}
    \cup {[kind |-> "single", generics |-> <<g>>] : g \in FileGenerics}
    \cup UNION {{[kind |-> "list", generics |-> gs] :
                    gs \in [1 .. n -> FileGenerics]} : n \in 0 .. MaxGenerics}

CopyInit ==
    /\ doc \in Docs
    /\ args \in {[billing |-> FALSE, strict_el |-> FALSE],
                  [billing |-> TRUE, strict_el |-> FALSE],
                  [billing |-> TRUE, strict_el |-> TRUE]}
    /\ copies = {}
    /\ rfr_done = FALSE
    /\ OnlyCopy

CopyNext == ProcessFile

SpecCopy == CopyInit /\ [][CopyNext]_vars

\* C29: after process_file a copy of the input file exists in exactly one
\* of the accepted and rejected directories, whatever mix of accepted and
\* rejected records the file holds.
C29_ExactlyOneCopy ==
    rfr_done => Cardinality(copies) = 1

-----------------------------------------------------------------------------
(***************************************************************************)
(* Part XI.  collect_files of sftp_collector.py, run once per cycle of the *)
(* main loop.  A remote folder is named by its rank in the sorted listing  *)
(* of the remote root (0 stands for the empty last_collected.txt); the     *)
(* folders are flat.  sftp.get either succeeds or raises, and a get that   *)
(* raises may leave nothing or a partial file under the local name.  The   *)
(* local directory may hold files of the remote folders at the start.      *)
(***************************************************************************)

MaxFolders == 2
MaxCycles == 2

RemoteFolders == 1 .. MaxFolders
RemoteFiles == {"a", "b"}

\* A set of file names as the list sftp.listdir_attr returns.
Listed(files) ==
    IF files = {} THEN << >>
    ELSE IF "a" \in files /\ "b" \in files THEN <<"a", "b">>
    ELSE IF "a" \in files THEN <<"a">> ELSE <<"b">>

\* The remote folders present, in sorted order, from rank d on.
RECURSIVE SortedFolders(_)
SortedFolders(d) ==
    IF d > MaxFolders THEN << >>
    ELSE IF remote[d] # {} THEN <<d>> \o SortedFolders(d + 1)
    ELSE SortedFolders(d + 1)

Sleeping == collector.pc = "sleep"

\* collect_files up to the folder loop: connect, list the remote root,
\* read last_collected.txt.
Connect ==
    /\ Sleeping
    /\ collector.cycle < MaxCycles
    /\ collector' = [collector EXCEPT !.pc = "folders",
                                       !.folders = SortedFolders(1),
                                       !.cycle = @ + 1]
    /\ UNCHANGED <<remote, renamed, local, last_collected, attempts, notSftp>>

\* for folder in remote_folders: a folder at or below last_collected is
\* skipped.
SkipFolder ==
    /\ collector.pc = "folders"
    /\ collector.folders # << >>
    /\ Head(collector.folders) <= last_collected
    /\ collector' = [collector EXCEPT !.folders = Tail(@)]
    /\ UNCHANGED <<remote, renamed, local, last_collected, attempts, notSftp>>

\* sftp_walk of a folder above last_collected.
WalkFolder ==
    /\ collector.pc = "folders"
    /\ collector.folders # << >>
    /\ Head(collector.folders) > last_collected
    /\ collector' = [collector EXCEPT
                        !.pc = "files",
                        !.folder = Head(collector.folders),
                        !.folders = Tail(@),
                        !.files = Listed(remote[Head(collector.folders)])]
    /\ UNCHANGED <<remote, renamed, local, last_collected, attempts, notSftp>>

TheFile == <<collector.folder, Head(collector.files)>>

\* for file in files: a file that exists under its local name is skipped.
AlreadyCollected ==
    /\ collector.pc = "files"
    /\ collector.files # << >>
    /\ local[TheFile] # "absent"
    /\ collector' = [collector EXCEPT !.files = Tail(@)]
    /\ UNCHANGED <<remote, renamed, local, last_collected, attempts, notSftp>>

\* sftp.get, shutil.copy2 and sftp.rename succeed (DELETE_SOURCE is off:
\* the renamed remote file stays).
Download ==
    /\ collector.pc = "files"
    /\ collector.files # << >>
    /\ local[TheFile] = "absent"
    /\ local' = [local EXCEPT ![TheFile] = "whole"]
    /\ renamed' = renamed \cup {TheFile}
    /\ attempts' = [attempts EXCEPT ![TheFile] = @ + 1]
    /\ collector' = [collector EXCEPT !.files = Tail(@)]
    /\ UNCHANGED <<remote, last_collected, notSftp>>

\* sftp.get raises: the exception is printed and the loop goes on to the
\* next file.
DownloadFails ==
    /\ collector.pc = "files"
    /\ collector.files # << >>
    /\ local[TheFile] = "absent"
    /\ \E left \in {"absent", "partial"} :
          local' = [local EXCEPT ![TheFile] = left]
    /\ attempts' = [attempts EXCEPT ![TheFile] = @ + 1]
    /\ collector' = [collector EXCEPT !.files = Tail(@)]
    /\ UNCHANGED <<remote, renamed, last_collected, notSftp>>

\* save_last_collected(folder), once the file loop of the folder is over.
SaveLastCollected ==
    /\ collector.pc = "files"
    /\ collector.files = << >>
    /\ last_collected' = collector.folder
    /\ collector' = [collector EXCEPT !.pc = "folders"]
    /\ UNCHANGED <<remote, renamed, local, attempts, notSftp>>

\* The folder loop is over: collect_files returns and main sleeps.
Disconnect ==
    /\ collector.pc = "folders"
    /\ collector.folders = << >>
    /\ collector' = [collector EXCEPT !.pc = "sleep"]
    /\ UNCHANGED <<remote, renamed, local, last_collected, attempts, notSftp>>

SftpInit ==
    /\ remote \in [RemoteFolders -> SUBSET RemoteFiles]
    /\ renamed = {}
    /\ local \in [RemoteFolders \X RemoteFiles -> {"absent", "whole"}]
    /\ \A df \in RemoteFolders \X RemoteFiles :
          local[df] = "whole" => df[2] \in remote[df[1]]
    /\ last_collected = 0
    /\ collector = [pc |-> "sleep", folders |-> << >>, folder |-> 0,
                    files |-> << >>, cycle |-> 0]
    /\ attempts = [df \in RemoteFolders \X RemoteFiles |-> 0]
    /\ OnlySftp

SftpNext ==
    \/ Connect
    \/ SkipFolder
    \/ WalkFolder
    \/ AlreadyCollected
    \/ Download
    \/ DownloadFails
    \/ SaveLastCollected
    \/ Disconnect

SpecSftp == SftpInit /\ [][SftpNext]_vars

\* C30: a remote folder is recorded as last-collected only after every
\* file in it has been downloaded, so that a file whose download failed
\* is attempted again in a later cycle.
C30_RecordedWhenComplete ==
    \A d \in RemoteFolders :
        last_collected = d =>
            \A f \in remote[d] : local[<<d, f>>] = "whole"

-----------------------------------------------------------------------------
(***************************************************************************)
(* Part XII.  How the scripts write their output for one input file:       *)
(* process_input_file of the voice and SMS mappers, process_file of the    *)
(* data mapper and of cbl.  A record of the file is a JSON object or a     *)
(* scalar (a string, a number, a list); the voice and SMS mappers raise    *)
(* AttributeError on a scalar, cbl.process_file raises it on a file that   *)
(* is no object, and the data mapper maps anything.  The voice and SMS     *)
(* files hold a list of records, the data and cbl files one record; cbl    *)
(* routes the record to one destination.  Opening a file for writing and   *)
(* the end of the write are separate steps: between them the file is       *)
(* partial.                                                                *)
(***************************************************************************)

MaxInputs == 3

Nodes == {"voice", "sms", "data", "cbl"}
Paths == {"tmp", "out", "rejects"}

\* Deriving record rec raises in script n.
Raises(n, rec) == rec = "scalar" /\ n # "data"

AtPc(pc) == node # "none" /\ writer.pc = pc

Derived == AtPc("derive") /\ writer.i = Len(in_records)

\* One turn of the record loop.  The voice mapper rejects a record that
\* raises, with the exception text and the input record; in the SMS mapper
\* the fallback map_phase1(rec) raises again, and in cbl nothing catches:
\* the exception leaves the function.
DeriveRecord ==
    /\ AtPc("derive")
    /\ writer.i < Len(in_records)
    /\ IF ~Raises(node, in_records[writer.i + 1])
       THEN /\ mapped_list' = Append(mapped_list, writer.i + 1)
            /\ writer' = [writer EXCEPT !.i = @ + 1]
            /\ UNCHANGED rejects
       ELSE IF node = "voice"
       THEN /\ rejects' = Append(rejects, [reason |-> "exception",
                                            record |-> "original",
                                            of |-> writer.i + 1])
            /\ writer' = [writer EXCEPT !.i = @ + 1]
            /\ UNCHANGED mapped_list
       ELSE /\ writer' = [writer EXCEPT !.pc = "raised"]
            /\ UNCHANGED <<mapped_list, rejects>>
    /\ UNCHANGED <<node, in_records, disk, notWrite>>

\* tmp.open('w') / open(tmp, "w"): the temporary file exists, empty.
OpenTemp ==
    /\ Derived
    /\ node \in {"voice", "sms", "cbl"}
    /\ disk' = [disk EXCEPT !["tmp"] = "partial"]
    /\ writer' = [writer EXCEPT !.pc = "tmp_open"]
    /\ UNCHANGED <<node, in_records, mapped_list, rejects, notWrite>>

\* json.dump into the temporary file, and its close.
DumpTemp ==
    /\ AtPc("tmp_open")
    /\ disk' = [disk EXCEPT !["tmp"] = "whole"]
    /\ writer' = [writer EXCEPT !.pc = "tmp_written"]
    /\ UNCHANGED <<node, in_records, mapped_list, rejects, notWrite>>

\* tmp.replace(out_path)
ReplaceOutput ==
    /\ AtPc("tmp_written")
    /\ disk' = [disk EXCEPT !["out"] = disk["tmp"], !["tmp"] = "absent"]
    /\ writer' = [writer EXCEPT !.pc = "replaced"]
    /\ UNCHANGED <<node, in_records, mapped_list, rejects, notWrite>>

\* The voice mapper, if rejects: rej_path.open('w').
OpenRejects ==
    /\ AtPc("replaced")
    /\ node = "voice" /\ rejects # << >>
    /\ disk' = [disk EXCEPT !["rejects"] = "partial"]
    /\ writer' = [writer EXCEPT !.pc = "rejects_open"]
    /\ UNCHANGED <<node, in_records, mapped_list, rejects, notWrite>>

\* json.dump(rejects, rf), and the close.
DumpRejects ==
    /\ AtPc("rejects_open")
    /\ disk' = [disk EXCEPT !["rejects"] = "whole"]
    /\ writer' = [writer EXCEPT !.pc = "rejects_written"]
    /\ UNCHANGED <<node, in_records, mapped_list, rejects, notWrite>>

\* The data mapper: output_file.write_text opens the output file itself.
OpenOutput ==
    /\ Derived
    /\ node = "data"
    /\ disk' = [disk EXCEPT !["out"] = "partial"]
    /\ writer' = [writer EXCEPT !.pc = "out_open"]
    /\ UNCHANGED <<node, in_records, mapped_list, rejects, notWrite>>

\* write_text writes the text and closes.
WriteOutput ==
    /\ AtPc("out_open")
    /\ disk' = [disk EXCEPT !["out"] = "whole"]
    /\ writer' = [writer EXCEPT !.pc = "done"]
    /\ UNCHANGED <<node, in_records, mapped_list, rejects, notWrite>>

\* shutil.move of the input file to the processed directory.
MoveInput ==
    /\ \/ AtPc("replaced") /\ ~(node = "voice" /\ rejects # << >>)
       \/ AtPc("rejects_written")
    /\ writer' = [writer EXCEPT !.pc = "done"]
    /\ UNCHANGED <<node, in_records, mapped_list, rejects, disk, notWrite>>

WriteInit ==
    /\ node \in Nodes
    /\ \E n \in 1 .. MaxInputs :
          /\ node \in {"data", "cbl"} => n = 1
          /\ in_records \in [1 .. n -> {"object", "scalar"}]
    /\ writer = [pc |-> "derive", i |-> 0]
    /\ mapped_list = << >>
    /\ rejects = << >>
    /\ disk = [p \in Paths |-> "absent"]
    /\ OnlyWrite

WriteNext ==
    \/ DeriveRecord
    \/ OpenTemp
    \/ DumpTemp
    \/ ReplaceOutput
    \/ OpenRejects
    \/ DumpRejects
    \/ OpenOutput
    \/ WriteOutput
    \/ MoveInput

SpecWrite == WriteInit /\ [][WriteNext]_vars

\* The script is through with the file: it returned or raised.
Through == node # "none" /\ writer.pc \in {"done", "raised"}

\* Record k is in the rejects output with its original content and a
\* reason.
InRejects(k) ==
    /\ disk["rejects"] = "whole"
    /\ \E j \in 1 .. Len(rejects) :
          rejects[j].of = k /\ rejects[j].record = "original"

\* Record k is in the normal output.
InOutput(k) ==
    /\ disk["out"] = "whole"
    /\ \E j \in 1 .. Len(mapped_list) : mapped_list[j] = k

\* C21: when deriving one record of a file raises, that record is written
\* to the rejects output with its original content and a reason, and every
\* other record of the file is derived and written to the normal output.
C21_RejectedWithSiblingsKept ==
    (Through /\ node \in {"voice", "sms", "cbl"}) =>
        \A k \in 1 .. Len(in_records) :
            IF Raises(node, in_records[k]) THEN InRejects(k) ELSE InOutput(k)

\* C22: every output file is written under a temporary name and renamed,
\* so that no file is ever partial under its final name.
C22_NeverPartial ==
    node # "none" => disk["out"] # "partial" /\ disk["rejects"] # "partial"

=============================================================================
